---- MODULE Spec2Model ----
(***************************************************************************)
(* QARMA speculative parallel-execution engine ("quantum register").       *)
(* Model of the register lifecycle (create / init_qubit / set_enabled /    *)
(* execute / wait / collapse / reset), the adaptive controller and the     *)
(* cross-learning bus, translated from kernel/quantum/quantum_register.c,  *)
(* quantum_adaptive.c and quantum_cross_learning.c.                        *)
(*                                                                         *)
(* Memory is modelled in words: a struct of three ints is a sequence of    *)
(* three integers, a NULL data pointer is the empty sequence, and the      *)
(* address of qubit i's data is DataAddr(i).                               *)
(***************************************************************************)
EXTENDS Integers, Sequences, FiniteSets, TLC

\* ------------------------------------------------------------------------
\* Bounds of the model
\* ------------------------------------------------------------------------
\* number of qubits of the register created in Init
NQ == 2

\* milliseconds of polling after which the model stops counting
WaitCap == 3

\* slots of the bus queue (MAX_CROSS_MESSAGES, scaled down)
MaxCrossMessages == 2

\* payload allocations the bus may make in one run
MaxSends == 3

\* width of a search qubit's range (5000 in the example, scaled down)
RangeWidth == 3

\* ------------------------------------------------------------------------
\* Program constants
\* ------------------------------------------------------------------------
COLLAPSE_FIRST_WINS == 0
COLLAPSE_LAST_WINS == 1
COLLAPSE_BEST == 2
COLLAPSE_VOTE == 3
COLLAPSE_COMBINE == 4
COLLAPSE_VALIDATE == 5
COLLAPSE_CUSTOM == 6
COLLAPSE_FUZZY == 7
COLLAPSE_PROGRESSIVE == 8
COLLAPSE_SPECULATIVE == 9
COLLAPSE_MULTIDIM == 10
COLLAPSE_TEMPORAL == 11
COLLAPSE_ENSEMBLE == 12
COLLAPSE_STRATEGY_COUNT == 13

ADAPTIVE_POLICY_NONE == 0
ADAPTIVE_POLICY_TIMEOUT == 1
ADAPTIVE_POLICY_FAILURE_RATE == 2
ADAPTIVE_POLICY_QUALITY == 3
ADAPTIVE_POLICY_AGGRESSIVE == 4

\* the simulated clock of quantum_adaptive_check: start time + 100
SimulatedElapsed == 100

MSG_PARTIAL_RESULT == 0
MSG_BEST_FOUND == 1
MSG_HINT == 2

\* quantum_schedule_strategy_t
SCHEDULE_SEQUENTIAL == 0
SCHEDULE_RANDOM == 1
SCHEDULE_LONGEST_FIRST == 2
SCHEDULE_SHORTEST_FIRST == 3
SCHEDULE_BALANCED == 4
SCHEDULE_AI_PREDICTED == 5

\* example_cross_system_learning: six qubits, ranges of 5000, target 23456
SearchQubits == 6
SearchRange == 5000
SearchTarget == 23456
FoundQuality == 100

\* sizeof(compute_data_t) = sizeof(range_sum_t), in words
StructWords == 3

\* the word that holds a struct's result field (result / sum)
ResultWord == 3

\* 2^16: a uint32_t is handled as two 16-bit halves
Half == 2^16

\* the multiplier 1103515245 of the fuzzy draw, as its two halves
LcgHigh == 16838
LcgLow == 20077

NullPtr == <<>>

\* the address of qubit i's data struct
DataAddr(i) == 1000 + i

Statuses == {"PENDING", "RUNNING", "COMPLETED", "FAILED", "SKIPPED"}

VARIABLES
    qubits,           \* reg->qubits[1..count]: enabled, status, function, data
    strategy,         \* reg->strategy
    evaluate,         \* reg->evaluate        ("NULL" or the callback's name)
    combine,          \* reg->combine
    custom_collapse,  \* reg->custom_collapse
    temporal,         \* reg->temporal        (<<>> = NULL, else <<record>>)
    collapse_output,  \* reg->collapse_output (owner "null"/"heap"/"caller", mem)
    result_size,      \* reg->result_size, in words
    collapsed,        \* reg->collapsed
    executing,        \* reg->executing
    completed_count,  \* reg->completed_count
    failed_count,     \* reg->failed_count
    pc,               \* position of the running qarma_quantum_execute call
    cur,              \* its loop index i (1-based)
    dispatched,       \* its local counter
    op,               \* the API call that made the last step
    ret,              \* what it returned
    called,           \* the callbacks it invoked
    gathered,         \* results[] of the last collapse that gathered
    wait_timeout,     \* timeout_ms of the running qarma_quantum_wait call
    waited,           \* milliseconds it has been polling
    adaptive_state,   \* reg->adaptive_state (alloc = FALSE: NULL)
    adaptive_log,     \* checks that returned true / changed reg->strategy
    g_message_queue,  \* the bus: slots 0..MAX-1 as positions 1..MAX
    g_queue_head,
    g_queue_tail,
    g_queue_count,
    g_best_solution,
    g_stats,
    heap_next,        \* the next payload address heap_alloc hands out
    accepted,         \* payload addresses of the messages send() accepted
    returned,         \* payload addresses receive() returned, in order
    out_msg,          \* *out_msg of the last receive that returned TRUE
    best_qubit_id,    \* *best_qubit_id of the last check_convergence
    best_made,        \* the best of the broadcast_best calls since init/clear
    tasks,            \* the search qubits: loop index and return value
    bus_threads,      \* bus calls in progress, one per calling thread
    broadcasts,       \* the (sender, quality) pairs given to broadcast_best
    workers,          \* qubit_execute_wrapper tasks of the parallel engine
    g_observer,       \* the AI observer: learning_db, db_capacity, enabled, ...
    observed,         \* the last observe_complete: profile and entry it used
    advice,           \* the last recommend_strategy: profile and strategy returned
    g_scheduler,      \* the predictive scheduler
    learned,          \* what the last learn() saw, until the next predict()
    order_out,        \* what the last get_order returned: order, *order_size
    pred_reads,       \* indices of predictions[] the last scheduler call read
    ensemble          \* reg->ensemble: the sub-strategies and their weights

regVars == <<qubits, strategy, evaluate, combine, custom_collapse, temporal,
             collapse_output, result_size, collapsed, executing,
             completed_count, failed_count>>
ctlVars == <<pc, cur, dispatched>>
obsVars == <<op, ret, called, gathered>>
waitVars == <<wait_timeout, waited>>
adaptVars == <<adaptive_state, adaptive_log>>
busVars == <<g_message_queue, g_queue_head, g_queue_tail, g_queue_count,
             g_best_solution, g_stats, heap_next, accepted, returned, out_msg,
             best_qubit_id, best_made>>
searchVars == <<tasks>>
threadVars == <<bus_threads, broadcasts>>
\* the subsystems driven by their own specifications
parVars == <<workers>>
observerVars == <<g_observer, observed, advice>>
schedVars == <<g_scheduler, learned, order_out, pred_reads>>
ensVars == <<ensemble>>
extVars == <<threadVars, parVars, observerVars, schedVars, ensVars>>
\* what the register's own calls never touch
outsideRegister == <<waitVars, adaptVars, busVars, searchVars, extVars>>
vars == <<regVars, ctlVars, obsVars, waitVars, adaptVars, busVars, searchVars,
         extVars>>

\* ------------------------------------------------------------------------
\* Caller-supplied callbacks (quantum_register_example.c)
\* ------------------------------------------------------------------------
RECURSIVE SumFromTo(_, _)
SumFromTo(lo, hi) == IF lo >= hi THEN 0 ELSE lo + SumFromTo(lo + 1, hi)

\* example_data_parallel: four qubits, 25 numbers each
SumQubits == 4
RangeCount == 25

\* compute_sum: cd->result = cd->a + cd->b
compute_sum(d) == [d EXCEPT ![ResultWord] = d[1] + d[2]]

\* sum_range: rs->sum = sum of start_index .. start_index + count - 1
sum_range(d) == [d EXCEPT ![ResultWord] = SumFromTo(d[1], d[1] + d[2])]

\* qubit->function(qubit->data): the struct the function leaves behind.
\* A function handed a NULL data pointer has nothing to write.
QubitFn(f, d) ==
    IF d = NullPtr THEN d
    ELSE IF f = "sum_range" THEN sum_range(d)
    ELSE compute_sum(d)

\* evaluate callbacks return the struct's result field
Eval(mem) == mem[ResultWord]

RECURSIVE SumResults(_, _)
SumResults(res, n) == IF n = 0 THEN 0 ELSE SumResults(res, n - 1) + res[n][ResultWord]

combine_all_but_last(res, count, out) == [out EXCEPT ![1] = SumResults(res, count - 1)]

\* combine_sums: *total = sum of results[i]->sum, written to the first word
combine_sums(res, count, out) == [out EXCEPT ![1] = SumResults(res, count)]

\* a custom collapse callback: writes the number of results it was given
custom_count(res, count, out) == [out EXCEPT ![1] = count]

\* memcpy(dst, src, n), in words
Memcpy(dst, src, n) ==
    [k \in 1..Len(dst) |-> IF k <= n /\ k <= Len(src) THEN src[k] ELSE dst[k]]

\* memcmp(a, b, n) == 0
MemEq(a, b, n) == \A k \in 1..n : a[k] = b[k]

\* ------------------------------------------------------------------------
\* Collapse library (quantum_register.c).  res is results[] dereferenced,
\* addr the pointers themselves, out the output buffer's words; the library
\* is entered only with a non-NULL output unless stated.
\* ------------------------------------------------------------------------
Scores(res) == [k \in 1..Len(res) |-> Eval(res[k])]

\* index of the first maximum of sc, scanning from 2 with a strict ">"
RECURSIVE ArgMaxFrom(_, _, _)
ArgMaxFrom(sc, k, best) ==
    IF k > Len(sc) THEN best
    ELSE ArgMaxFrom(sc, k + 1, IF sc[k] > sc[best] THEN k ELSE best)

ArgMax(sc) == ArgMaxFrom(sc, 2, 1)

RECURSIVE SumSeq(_, _)
SumSeq(sc, n) == IF n = 0 THEN 0 ELSE SumSeq(sc, n - 1) + sc[n]

\* *(void**)output = results[0]
qarma_collapse_first_wins(addr, out) ==
    IF Len(addr) = 0 \/ Len(out) = 0 THEN out ELSE [out EXCEPT ![1] = addr[1]]

\* *(void**)output = results[count - 1]
qarma_collapse_last_wins(addr, out) ==
    IF Len(addr) = 0 \/ Len(out) = 0 THEN out ELSE [out EXCEPT ![1] = addr[Len(addr)]]

\* COLLAPSE_BEST, inline in qarma_quantum_collapse
collapse_best(res, out, size) ==
    IF Len(out) > 0 /\ size > 0 THEN Memcpy(out, res[ArgMax(Scores(res))], size)
    ELSE out

unchecked(res, size) == TRUE

\* the comparison loop: memcmp(results[0], results[i], size) == 0 for every i
ValidateAgrees(res, size) == \A k \in 2..Len(res) : MemEq(res[1], res[k], size)

qarma_collapse_validate(res, out, size) ==
    IF Len(res) = 0 \/ Len(out) = 0 \/ size = 0 THEN out
    ELSE IF ValidateAgrees(res, size) THEN Memcpy(out, res[1], size)
    ELSE out

\* the LCG draw of qarma_collapse_fuzzy:
\*   rand_val = (uint32_t)scores[0] * 1103515245 + 12345;
\*   rand_val = (rand_val / 65536) % 100;
\* in uint32_t arithmetic, computed on 16-bit halves
FuzzyRand(s0) ==
    LET sl == s0 % Half
        sh == (s0 \div Half) % Half
        low == sl * LcgLow + 12345
        high == (((sh * LcgLow) % Half) + ((sl * LcgHigh) % Half) + (low \div Half)) % Half
    IN  high % 100

RECURSIVE FuzzyPick(_, _, _, _)
FuzzyPick(sc, k, cumulative, target) ==
    IF k > Len(sc) THEN 1
    ELSE IF cumulative + sc[k] >= target THEN k
    ELSE FuzzyPick(sc, k + 1, cumulative + sc[k], target)

RECURSIVE FuzzyBestFrom(_, _, _, _)
FuzzyBestFrom(sc, k, best, max) ==
    IF k > Len(sc) THEN best
    ELSE IF sc[k] > max THEN FuzzyBestFrom(sc, k + 1, k, sc[k])
    ELSE FuzzyBestFrom(sc, k + 1, best, max)

FuzzySelect(sc) ==
    LET r == FuzzyRand(sc[1])
        total == SumSeq(sc, Len(sc))
    IN  IF r < 70 THEN FuzzyBestFrom(sc, 1, 1, -999999)
        ELSE IF total > 0 THEN FuzzyPick(sc, 1, 0, (r * total) \div 100)
        ELSE (r % Len(sc)) + 1

qarma_collapse_fuzzy(res, out, size) == Memcpy(out, res[FuzzySelect(Scores(res))], size)

ties_adopted(candidate_score, current_score) == candidate_score >= current_score

\* the test under which qarma_collapse_progressive adopts a candidate
better_candidate(candidate_score, current_score) == candidate_score > current_score

\* one pass of the inner loop of qarma_collapse_progressive over results[1..]
RECURSIVE ProgressivePass(_, _, _, _)
ProgressivePass(res, k, o, size) ==
    IF k > Len(res) THEN o
    ELSE IF better_candidate(Eval(res[k]), o.score)
         THEN ProgressivePass(res, k + 1,
                  [mem |-> Memcpy(o.mem, res[k], size), score |-> Eval(res[k])], size)
         ELSE ProgressivePass(res, k + 1, o, size)

qarma_collapse_progressive(res, out, size, haveEval) ==
    LET first == Memcpy(out, res[1], size)
        o0 == [mem |-> first, score |-> Eval(first)]
        o1 == ProgressivePass(res, 2, o0, size)
        o2 == ProgressivePass(res, 2, o1, size)
        o3 == ProgressivePass(res, 2, o2, size)
    IN  IF ~haveEval THEN first ELSE o3.mem

\* the validation loop of qarma_collapse_speculative; "score >= spec * 0.9"
\* is compared exactly as 10 * score >= 9 * spec
RECURSIVE SpecScan(_, _, _, _)
SpecScan(sc, k, spec, acc) ==
    IF k > Len(sc) THEN acc
    ELSE IF 10 * sc[k] >= 9 * spec
         THEN SpecScan(sc, k + 1, spec, [acc EXCEPT !.conf = @ + 1])
         ELSE IF sc[k] > acc.altScore
              THEN SpecScan(sc, k + 1, spec,
                       [acc EXCEPT !.contra = @ + 1, !.altScore = sc[k], !.altIdx = k])
              ELSE SpecScan(sc, k + 1, spec, acc)

majority_rollback(acc, speculative_score) == acc.contra > acc.conf

\* the rollback test of qarma_collapse_speculative
rollback(acc, speculative_score) ==
    acc.contra > acc.conf /\ acc.altScore > speculative_score

SpeculativeSelect(sc) ==
    LET acc == SpecScan(sc, 2, sc[1],
                   [conf |-> 0, contra |-> 0, altScore |-> -999999, altIdx |-> 1])
    IN  IF rollback(acc, sc[1]) THEN acc.altIdx ELSE 1

qarma_collapse_speculative(res, out, size, haveEval) ==
    IF ~haveEval \/ Len(res) < 2 THEN Memcpy(out, res[1], size)
    ELSE Memcpy(out, res[SpeculativeSelect(Scores(res))], size)

\* C integer division truncates toward zero
CDiv(a, b) == IF a >= 0 THEN a \div b ELSE -((-a) \div b)

\* history->quality_history[k - 1]: an entry of the array, or what an earlier
\* collapse wrote past its end
HistoryAt(h, k) ==
    IF k <= Len(h.quality_history) THEN h.quality_history[k]
    ELSE h.beyond[k - Len(h.quality_history)]

\* temporal_scores[] of qarma_collapse_temporal
TemporalScores(sc, h) ==
    [k \in 1..Len(sc) |->
        IF h.history_size > 0 /\ Len(h.quality_history) > 0 /\ k <= h.history_size
        THEN CDiv(sc[k] * (100 - h.trend_weight)
                  + (sc[k] + (sc[k] - HistoryAt(h, k))) * h.trend_weight, 100)
        ELSE sc[k]]

\* the history after the update at the end of qarma_collapse_temporal:
\* history_size is raised to count, and when the array is allocated
\* current_scores[i] is stored for every i < count, past the end of the
\* array (beyond) when count exceeds what was allocated
TemporalUpdate(sc, h) ==
    LET cap == Len(h.quality_history)
        n == Len(sc)
    IN  [h EXCEPT
           !.history_size = IF @ < Len(sc) THEN Len(sc) ELSE @,
           !.quality_history = [k \in 1..cap |-> IF k <= n THEN sc[k] ELSE @[k]],
           !.beyond =
               IF cap = 0 THEN @
               ELSE [k \in 1..(IF Len(@) > n - cap THEN Len(@) ELSE n - cap) |->
                        IF k + cap <= n THEN sc[k + cap] ELSE @[k]]]

qarma_collapse_temporal(res, out, size, haveEval, h) ==
    IF ~haveEval THEN Memcpy(out, res[1], size)
    ELSE Memcpy(out, res[ArgMax(TemporalScores(Scores(res), h))], size)

\* the draw of the Fuzzy case of qarma_collapse_ensemble:
\*   rand_val = (best_score * 1103515245 + 12345) % 100;
\* in int arithmetic, which does not overflow for the scores 0 and 1 it is
\* used with
EnsembleRand(best_score) == (best_score * (LcgHigh * Half + LcgLow) + 12345) % 100

\* Fuzzy as the ensemble replays it: the best result, or result
\* rand_val % count when the draw is 70 or more
ensemble_fuzzy(sc) ==
    LET r == EnsembleRand(sc[ArgMax(sc)])
    IN  IF r >= 70 THEN (r % Len(sc)) + 1 ELSE ArgMax(sc)

\* selected_idx of the switch over the sub-strategy s (1-based); sc are the
\* scores evaluate gives the results. reg->multidim is NULL.
selected_idx(s, sc) ==
    CASE s = COLLAPSE_FIRST_WINS -> 1
      [] s = COLLAPSE_LAST_WINS -> Len(sc)
      [] s = COLLAPSE_BEST -> IF evaluate # "NULL" THEN ArgMax(sc) ELSE 1
      [] s = COLLAPSE_FUZZY -> IF evaluate # "NULL" THEN ensemble_fuzzy(sc) ELSE 1
      [] s = COLLAPSE_TEMPORAL ->
             IF temporal.alloc /\ evaluate # "NULL"
             THEN FuzzyBestFrom(TemporalScores(sc, temporal), 1, 1, -999999)
             ELSE 1
      [] OTHER -> 1

\* votes[] after the sub-strategies from k on have voted
RECURSIVE EnsembleVotes(_, _, _)
EnsembleVotes(sc, k, votes) ==
    IF k > Len(ensemble.strategies) THEN votes
    ELSE EnsembleVotes(sc, k + 1,
             [votes EXCEPT ![selected_idx(ensemble.strategies[k], sc)] =
                               @ + ensemble.weights[k]])

\* winner_idx: the first result of the most votes
qarma_collapse_ensemble(res, out, size) ==
    Memcpy(out, res[ArgMax(EnsembleVotes(Scores(res), 1, [k \in 1..Len(res) |-> 0]))], size)

\* ------------------------------------------------------------------------
\* Register: construction
\* ------------------------------------------------------------------------
NullBuf == [owner |-> "null", mem |-> <<>>]

NoTemporal ==
    [alloc |-> FALSE, window_size |-> 0, trend_weight |-> 0,
     history_size |-> 0, quality_history |-> <<>>, beyond |-> <<>>]

Zeroes(n) == [k \in 1..n |-> 0]

\* qarma_quantum_register_create(n): every qubit disabled and Pending
qarma_quantum_register_create(n) ==
    [i \in 1..n |->
        [enabled |-> FALSE, status |-> "PENDING", function |-> "NULL",
         data |-> NullPtr, result_size |-> 0]]

\* reg->adaptive_state = NULL; thresholds are in ms and in percent
NoAdaptive ==
    [alloc |-> FALSE, policy |-> ADAPTIVE_POLICY_NONE,
     thresholds |-> [timeout_ms |-> 0, failure_threshold |-> 0,
                     quality_threshold |-> 0, check_interval_ms |-> 0],
     execution_start_time |-> 0, last_check_time |-> 0, switch_count |-> 0,
     original_strategy |-> 0, current_strategy |-> 0, has_switched |-> FALSE,
     completed_at_last_check |-> 0, failed_at_last_check |-> 0,
     current_quality |-> 0]

NoChecks == [returned_true |-> 0, changed |-> 0]

\* a zeroed cross_message_t; data = 0 is the NULL payload pointer
NoMessage == [type |-> 0, sender_id |-> 0, data |-> 0, payload |-> 0]

NoSolution ==
    [has_solution |-> FALSE, qubit_id |-> 0, quality_score |-> 0, data |-> 0]

\* the bus as quantum_cross_learning_init leaves it (and as the zeroed
\* statics are at boot)
\* no broadcast_best call yet
NoBroadcast == [made |-> FALSE, sender_id |-> 0, quality_score |-> 0]

\* the calls so far and one more: the highest quality_score given to
\* broadcast_best and the sender of the earliest call that gave it
Broadcast(sender_id, quality_score) ==
    IF ~best_made.made \/ quality_score > best_made.quality_score
    THEN [made |-> TRUE, sender_id |-> sender_id, quality_score |-> quality_score]
    ELSE best_made

InitBus ==
    /\ g_message_queue = [k \in 1..MaxCrossMessages |-> NoMessage]
    /\ g_queue_head = 0
    /\ g_queue_tail = 0
    /\ g_queue_count = 0
    /\ g_best_solution = NoSolution
    /\ g_stats = [messages_sent |-> 0, messages_received |-> 0]
    /\ heap_next = 1
    /\ accepted = {}
    /\ returned = <<>>
    /\ out_msg = NoMessage
    /\ best_qubit_id = 0
    /\ best_made = NoBroadcast

\* the threads (qubit functions) that call the bus, by qubit id
BusThreads == {0, 1}

\* payload allocations after which the threads start no further call
MaxThreadCalls == 2

\* observations after which the observer is not called again
MaxObservations == 11
MaxScheduled == 4
MaxSamples == 3
SizeStep == 20

\* a thread that is not inside a bus call; msg is its local cross_message_t,
\* quality its quality_score argument, t the value it last loaded, idx the
\* offset its scan found
IdleThread == [pc |-> "idle", msg |-> NoMessage, quality |-> 0, t |-> 0, idx |-> 0]

\* no wrapper task submitted: the qubits whose task is queued, is running
\* the qubit's function, or has marked the qubit Completed and not yet
\* counted it; peak is the largest number of tasks ever at that last point
\* together; finished lists the qubits of the current execution in the
\* order their functions returned
NoWorkers == [queued |-> {}, running |-> {}, marked |-> {}, peak |-> 0,
              finished |-> <<>>]

\* the static initialiser of g_observer; learning_db holds the db_size
\* entries in use
NoObserver ==
    [learning_db |-> <<>>, db_capacity |-> 0, enabled |-> TRUE,
     total_observations |-> 0]

NothingObserved == [profile |-> <<>>, entry |-> 0]

\* the static initialiser of g_scheduler; predictions = <<>> is the NULL
\* pointer, learned_patterns holds the pattern_count entries in use,
\* avg_prediction_error is in thousandths; beyond is what the heap holds
\* behind the predictions array
NoScheduler ==
    [strategy |-> SCHEDULE_AI_PREDICTED, predictions |-> <<>>,
     prediction_count |-> 0, learned_patterns |-> <<>>, total_scheduled |-> 0,
     predictions_accurate |-> 0, avg_prediction_error |-> 0, beyond |-> <<>>]

\* reg->ensemble is NULL; strategies[] and weights[] hold the
\* num_strategies slots in use
NoEnsemble == [alloc |-> FALSE, strategies |-> <<>>, weights |-> <<>>]

\* no order returned: a NULL pointer and an order_size of 0
NoOrder == [null |-> TRUE, order |-> <<>>, order_size |-> 0]

\* wait, adaptive controller, search: nothing started, nothing allocated
InitOutside ==
    /\ wait_timeout = 0
    /\ waited = 0
    /\ adaptive_state = NoAdaptive
    /\ adaptive_log = NoChecks
    /\ InitBus
    /\ tasks = [run |-> <<>>, found |-> FALSE, found_at |-> 0]
    /\ bus_threads = [t \in BusThreads |-> IdleThread]
    /\ broadcasts = {}
    /\ workers = NoWorkers
    /\ g_observer = NoObserver
    /\ observed = NothingObserved
    /\ advice = <<>>
    /\ g_scheduler = NoScheduler
    /\ learned = <<>>
    /\ order_out = NoOrder
    /\ pred_reads = {}
    /\ ensemble = NoEnsemble

InitRegister(n) ==
    /\ InitOutside
    /\ qubits = qarma_quantum_register_create(n)
    /\ strategy = COLLAPSE_FIRST_WINS
    /\ evaluate = "NULL"
    /\ combine = "NULL"
    /\ custom_collapse = "NULL"
    /\ temporal = NoTemporal
    /\ collapse_output = NullBuf
    /\ result_size = 0
    /\ collapsed = FALSE
    /\ executing = FALSE
    /\ completed_count = 0
    /\ failed_count = 0
    /\ pc = "idle"
    /\ cur = 0
    /\ dispatched = 0
    /\ op = "create"
    /\ ret = "reg"
    /\ called = {}
    /\ gathered = <<>>

Count == Len(qubits)

EnabledCount == Cardinality({i \in 1..Count : qubits[i].enabled})

\* qarma_quantum_is_complete
qarma_quantum_is_complete == completed_count + failed_count >= EnabledCount

Bool(b) == IF b THEN "true" ELSE "false"

\* a call that is not in the middle of qarma_quantum_execute
Idle == pc = "idle"

\* the call invoked no callback and gathered no results
NoCallbacks == called' = {} /\ gathered' = <<>>

\* ------------------------------------------------------------------------
\* Register: qubit configuration
\* ------------------------------------------------------------------------
\* qarma_qubit_init(reg, i, function, data, rsize); allocOk is heap_alloc's
\* outcome for the result buffer
qarma_qubit_init(i, function, data, rsize, allocOk) ==
    /\ Idle
    /\ op' = "qubit_init"
    /\ IF i > Count \/ function = "NULL"
       THEN /\ ret' = "false"
            /\ UNCHANGED qubits
       ELSE /\ qubits' = [qubits EXCEPT ![i] =
                   [@ EXCEPT !.function = function, !.data = data,
                             !.enabled = TRUE, !.status = "PENDING",
                             !.result_size = IF rsize > 0 /\ allocOk THEN rsize ELSE @]]
            /\ ret' = Bool(rsize = 0 \/ allocOk)
    /\ UNCHANGED <<strategy, evaluate, combine, custom_collapse, temporal,
                   collapse_output, result_size, collapsed, executing,
                   completed_count, failed_count, ctlVars>>
    /\ NoCallbacks
    /\ UNCHANGED outsideRegister

\* qarma_qubit_set_enabled(reg, i, enabled)
qarma_qubit_set_enabled(i, enabled) ==
    /\ Idle
    /\ op' = "set_enabled"
    /\ ret' = "void"
    /\ IF i > Count
       THEN UNCHANGED qubits
       ELSE qubits' = [qubits EXCEPT ![i] =
                [@ EXCEPT !.enabled = enabled,
                          !.status = IF enabled THEN @ ELSE "SKIPPED"]]
    /\ UNCHANGED <<strategy, evaluate, combine, custom_collapse, temporal,
                   collapse_output, result_size, collapsed, executing,
                   completed_count, failed_count, ctlVars>>
    /\ NoCallbacks
    /\ UNCHANGED outsideRegister

reset_and_enable(q) == [q EXCEPT !.status = "PENDING", !.enabled = TRUE]

\* the body of the loop of qarma_quantum_register_reset: the status goes back
\* to Pending; function, data, enabled flag and result buffer stay
reset_qubit(q) == [q EXCEPT !.status = "PENDING"]

\* qarma_quantum_register_reset(reg)
qarma_quantum_register_reset ==
    /\ Idle
    /\ op' = "reset"
    /\ ret' = "void"
    /\ completed_count' = 0
    /\ failed_count' = 0
    /\ collapsed' = FALSE
    /\ executing' = FALSE
    /\ qubits' = [i \in 1..Count |-> reset_qubit(qubits[i])]
    /\ UNCHANGED <<strategy, evaluate, combine, custom_collapse, temporal,
                   collapse_output, result_size, ctlVars>>
    /\ NoCallbacks
    /\ UNCHANGED outsideRegister

\* ------------------------------------------------------------------------
\* Register: collapse configuration
\* ------------------------------------------------------------------------
\* qarma_quantum_set_collapse(reg, s)
qarma_quantum_set_collapse(s) ==
    /\ Idle
    /\ op' = "set_collapse"
    /\ ret' = "void"
    /\ strategy' = s
    /\ UNCHANGED <<qubits, evaluate, combine, custom_collapse, temporal,
                   collapse_output, result_size, collapsed, executing,
                   completed_count, failed_count, ctlVars>>
    /\ NoCallbacks
    /\ UNCHANGED outsideRegister

\* qarma_quantum_set_custom_collapse(reg, f): also selects COLLAPSE_CUSTOM
qarma_quantum_set_custom_collapse(f) ==
    /\ Idle
    /\ op' = "set_custom_collapse"
    /\ ret' = "void"
    /\ custom_collapse' = f
    /\ strategy' = COLLAPSE_CUSTOM
    /\ UNCHANGED <<qubits, evaluate, combine, temporal,
                   collapse_output, result_size, collapsed, executing,
                   completed_count, failed_count, ctlVars>>
    /\ NoCallbacks
    /\ UNCHANGED outsideRegister

\* qarma_quantum_set_evaluate(reg, f)
qarma_quantum_set_evaluate(f) ==
    /\ Idle
    /\ op' = "set_evaluate"
    /\ ret' = "void"
    /\ evaluate' = f
    /\ UNCHANGED <<qubits, strategy, combine, custom_collapse, temporal,
                   collapse_output, result_size, collapsed, executing,
                   completed_count, failed_count, ctlVars>>
    /\ NoCallbacks
    /\ UNCHANGED outsideRegister

\* qarma_quantum_set_combine(reg, f)
qarma_quantum_set_combine(f) ==
    /\ Idle
    /\ op' = "set_combine"
    /\ ret' = "void"
    /\ combine' = f
    /\ UNCHANGED <<qubits, strategy, evaluate, custom_collapse, temporal,
                   collapse_output, result_size, collapsed, executing,
                   completed_count, failed_count, ctlVars>>
    /\ NoCallbacks
    /\ UNCHANGED outsideRegister

\* qarma_quantum_set_temporal(reg, window, weight); both allocations succeed
qarma_quantum_set_temporal(window, weight) ==
    /\ Idle
    /\ op' = "set_temporal"
    /\ ret' = "void"
    /\ temporal' =
          [alloc |-> TRUE, window_size |-> window, trend_weight |-> weight,
           history_size |-> temporal.history_size,
           quality_history |->
               IF Len(temporal.quality_history) = 0 /\ window > 0
               THEN Zeroes(window) ELSE temporal.quality_history,
           beyond |-> temporal.beyond]
    /\ UNCHANGED <<qubits, strategy, evaluate, combine, custom_collapse,
                   collapse_output, result_size, collapsed, executing,
                   completed_count, failed_count, ctlVars>>
    /\ NoCallbacks
    /\ UNCHANGED outsideRegister

\* the caller's direct write reg->result_size = sizeof(...)
set_result_size(n) ==
    /\ Idle
    /\ op' = "set_result_size"
    /\ ret' = "void"
    /\ result_size' = n
    /\ UNCHANGED <<qubits, strategy, evaluate, combine, custom_collapse, temporal,
                   collapse_output, collapsed, executing,
                   completed_count, failed_count, ctlVars>>
    /\ NoCallbacks
    /\ UNCHANGED outsideRegister

\* the caller's direct write reg->collapse_output = &buffer (zero-initialised)
set_collapse_output(words) ==
    /\ Idle
    /\ op' = "set_collapse_output"
    /\ ret' = "void"
    /\ collapse_output' = [owner |-> "caller", mem |-> Zeroes(words)]
    /\ UNCHANGED <<qubits, strategy, evaluate, combine, custom_collapse, temporal,
                   result_size, collapsed, executing,
                   completed_count, failed_count, ctlVars>>
    /\ NoCallbacks
    /\ UNCHANGED outsideRegister

\* ------------------------------------------------------------------------
\* Register: execution.  qarma_quantum_execute runs the qubits itself, in
\* index order; the steps below are the iterations of its dispatch loop,
\* with qubit_execute_wrapper split where the qubit's function runs.
\* ------------------------------------------------------------------------
regConfig == <<strategy, evaluate, combine, custom_collapse, temporal,
               collapse_output, result_size>>

\* entry of qarma_quantum_execute
ExecuteBegin ==
    /\ Idle
    /\ ~executing
    /\ executing' = TRUE
    /\ collapsed' = FALSE
    /\ completed_count' = 0
    /\ failed_count' = 0
    /\ pc' = "dispatch"
    /\ cur' = 1
    /\ dispatched' = 0
    /\ op' = "execute_begin"
    /\ ret' = "void"
    /\ UNCHANGED <<qubits, regConfig>>
    /\ NoCallbacks
    /\ UNCHANGED outsideRegister

\* qarma_quantum_execute called while reg->executing (from a qubit's function)
ExecuteRefused ==
    /\ pc = "running"
    /\ executing
    /\ op' = "execute"
    /\ ret' = "false"
    /\ UNCHANGED <<regVars, ctlVars>>
    /\ NoCallbacks
    /\ UNCHANGED outsideRegister

DispatchDisabled ==
    /\ pc = "dispatch"
    /\ cur <= Count
    /\ ~qubits[cur].enabled
    /\ qubits' = [qubits EXCEPT ![cur].status = "COMPLETED"]
    /\ completed_count' = completed_count + 1
    /\ cur' = cur + 1
    /\ op' = "dispatch"
    /\ ret' = "void"
    /\ UNCHANGED <<regConfig, collapsed, executing, failed_count, pc, dispatched>>
    /\ NoCallbacks
    /\ UNCHANGED outsideRegister

\* loop iteration for a disabled qubit
DispatchSkip ==
    /\ pc = "dispatch"
    /\ cur <= Count
    /\ ~qubits[cur].enabled
    /\ qubits' = [qubits EXCEPT ![cur].status = "SKIPPED"]
    /\ cur' = cur + 1
    /\ op' = "dispatch"
    /\ ret' = "void"
    /\ UNCHANGED <<regConfig, collapsed, executing, completed_count, failed_count,
                   pc, dispatched>>
    /\ NoCallbacks
    /\ UNCHANGED outsideRegister

\* loop iteration whose heap_alloc of the qubit context fails
DispatchFail ==
    /\ pc = "dispatch"
    /\ cur <= Count
    /\ qubits[cur].enabled
    /\ qubits' = [qubits EXCEPT ![cur].status = "FAILED"]
    /\ failed_count' = failed_count + 1
    /\ cur' = cur + 1
    /\ op' = "dispatch"
    /\ ret' = "void"
    /\ UNCHANGED <<regConfig, collapsed, executing, completed_count, pc, dispatched>>
    /\ NoCallbacks
    /\ UNCHANGED outsideRegister

\* qubit_execute_wrapper returning at once: the qubit has no function
WrapperNoFunction ==
    /\ pc = "dispatch"
    /\ cur <= Count
    /\ qubits[cur].enabled
    /\ qubits[cur].function = "NULL"
    /\ cur' = cur + 1
    /\ dispatched' = dispatched + 1
    /\ op' = "dispatch"
    /\ ret' = "void"
    /\ UNCHANGED <<regVars, pc>>
    /\ NoCallbacks
    /\ UNCHANGED outsideRegister

\* qubit_execute_wrapper up to the call of the qubit's function
WrapperStart ==
    /\ pc = "dispatch"
    /\ cur <= Count
    /\ qubits[cur].enabled
    /\ qubits[cur].function # "NULL"
    /\ qubits' = [qubits EXCEPT ![cur].status = "RUNNING"]
    /\ pc' = "running"
    /\ op' = "dispatch"
    /\ ret' = "void"
    /\ UNCHANGED <<regConfig, collapsed, executing, completed_count, failed_count,
                   cur, dispatched>>
    /\ NoCallbacks
    /\ UNCHANGED outsideRegister

\* the function returns; the wrapper marks the qubit and counts it
WrapperFinish ==
    /\ pc = "running"
    /\ qubits' = [qubits EXCEPT ![cur] =
            [@ EXCEPT !.data = QubitFn(qubits[cur].function, qubits[cur].data),
                      !.status = "COMPLETED"]]
    /\ completed_count' = completed_count + 1
    /\ dispatched' = dispatched + 1
    /\ cur' = cur + 1
    /\ pc' = "dispatch"
    /\ op' = "dispatch"
    /\ ret' = "void"
    /\ UNCHANGED <<regConfig, collapsed, executing, failed_count>>
    /\ NoCallbacks
    /\ UNCHANGED outsideRegister

\* qarma_quantum_execute returns
ExecuteReturn ==
    /\ pc = "dispatch"
    /\ cur > Count
    /\ executing' = FALSE
    /\ pc' = "idle"
    /\ cur' = 0
    /\ dispatched' = 0
    /\ op' = "execute"
    /\ ret' = Bool(dispatched > 0)
    /\ UNCHANGED <<qubits, regConfig, collapsed, completed_count, failed_count>>
    /\ NoCallbacks
    /\ UNCHANGED outsideRegister

\* qarma_quantum_execute_sync returns: execute(), then is_complete()
ExecuteSyncReturn ==
    /\ pc = "dispatch"
    /\ cur > Count
    /\ executing' = FALSE
    /\ pc' = "idle"
    /\ cur' = 0
    /\ dispatched' = 0
    /\ op' = "execute_sync"
    /\ ret' = Bool(dispatched > 0 /\ qarma_quantum_is_complete)
    /\ UNCHANGED <<qubits, regConfig, collapsed, completed_count, failed_count>>
    /\ NoCallbacks
    /\ UNCHANGED outsideRegister

\* ------------------------------------------------------------------------
\* Register: qubits dispatched as parallel tasks (the submission that
\* qarma_quantum_execute keeps as its alternative to the direct call)
\* ------------------------------------------------------------------------
plain_store(counter, n) == n

\* __sync_fetch_and_add(&counter, n): one indivisible read-modify-write
sync_fetch_and_add(counter, n) == counter + n

AllWorkersDone == workers.queued \cup workers.running \cup workers.marked = {}

WorkerStep ==
    /\ op' = "worker"
    /\ ret' = "void"
    /\ NoCallbacks
    /\ UNCHANGED <<regConfig, collapsed, executing, failed_count, ctlVars>>
    /\ UNCHANGED <<waitVars, adaptVars, busVars, searchVars, threadVars, observerVars,
                   schedVars, ensVars>>

\* loop iteration that submits the wrapper as a task for an enabled qubit
ParallelSubmit ==
    /\ pc = "dispatch"
    /\ cur <= Count
    /\ qubits[cur].enabled
    /\ qubits[cur].function # "NULL"
    /\ workers' = [workers EXCEPT !.queued = @ \cup {cur},
                                  !.finished = IF dispatched = 0 THEN <<>> ELSE @]
    /\ dispatched' = dispatched + 1
    /\ cur' = cur + 1
    /\ op' = "dispatch"
    /\ ret' = "void"
    /\ UNCHANGED <<regVars, pc>>
    /\ NoCallbacks
    /\ UNCHANGED <<waitVars, adaptVars, busVars, searchVars, threadVars, observerVars,
                   schedVars, ensVars>>

\* loop iteration whose heap_alloc of the qubit context fails, the tasks
\* submitted before it running meanwhile
ParallelDispatchFail ==
    /\ pc = "dispatch"
    /\ cur <= Count
    /\ qubits[cur].enabled
    /\ qubits' = [qubits EXCEPT ![cur].status = "FAILED"]
    /\ failed_count' = sync_fetch_and_add(failed_count, 1)
    /\ cur' = cur + 1
    /\ op' = "dispatch"
    /\ ret' = "void"
    /\ UNCHANGED <<regConfig, collapsed, executing, completed_count, pc, dispatched>>
    /\ NoCallbacks
    /\ UNCHANGED outsideRegister

\* qubit_execute_wrapper on a core, up to the call of the qubit's function
WorkerStart(i) ==
    /\ i \in workers.queued
    /\ qubits' = [qubits EXCEPT ![i].status = "RUNNING"]
    /\ workers' = [workers EXCEPT !.queued = @ \ {i}, !.running = @ \cup {i}]
    /\ UNCHANGED completed_count
    /\ WorkerStep

still_running == "RUNNING"

\* the status the wrapper stores after the function has returned and
\* before it counts the qubit
wrapper_final_status == "COMPLETED"

\* the function returns and the wrapper marks the qubit Completed
WorkerFinish(i) ==
    /\ i \in workers.running
    /\ qubits' = [qubits EXCEPT ![i] =
            [@ EXCEPT !.data = QubitFn(qubits[i].function, qubits[i].data),
                      !.status = wrapper_final_status]]
    /\ workers' = [workers EXCEPT
                     !.running = @ \ {i},
                     !.marked = @ \cup {i},
                     !.finished = Append(@, i),
                     !.peak = IF Cardinality(workers.marked) + 1 > @
                              THEN Cardinality(workers.marked) + 1 ELSE @]
    /\ UNCHANGED completed_count
    /\ WorkerStep

\* the wrapper counts the qubit and frees its context
WorkerCount(i) ==
    /\ i \in workers.marked
    /\ completed_count' = sync_fetch_and_add(completed_count, 1)
    /\ workers' = [workers EXCEPT !.marked = @ \ {i}]
    /\ UNCHANGED qubits
    /\ WorkerStep

\* ------------------------------------------------------------------------
\* Register: collapse
\* ------------------------------------------------------------------------
\* the Completed qubits in the order they finished
completion_order ==
    SelectSeq(workers.finished,
              LAMBDA i : qubits[i].status = "COMPLETED" /\ qubits[i].data # NullPtr)

\* the gathering loop of qarma_quantum_collapse: the Completed qubits with a
\* non-NULL data pointer, in qubit-array order
GatherResults ==
    SelectSeq([i \in 1..Count |-> i],
              LAMBDA i : qubits[i].status = "COMPLETED" /\ qubits[i].data # NullPtr)

\* what the strategy switch of qarma_quantum_collapse leaves behind, given
\* the gathered qubit indices g and the (allocated) output buffer out:
\* the buffer's words, the temporal history, the callbacks invoked, and
\* whether a callback was handed a NULL output to write through
StrategySwitch(g, out) ==
    LET res == [k \in 1..Len(g) |-> qubits[g[k]].data]
        addr == [k \in 1..Len(g) |-> DataAddr(g[k])]
        rc == Len(g)
        haveOut == out.owner # "null"
        haveEval == evaluate # "NULL"
        same == [mem |-> out.mem, temporal |-> temporal, called |-> {}, fault |-> FALSE]
    IN  IF rc = 0 THEN same
        ELSE CASE strategy = COLLAPSE_FIRST_WINS ->
                 [same EXCEPT !.mem = qarma_collapse_first_wins(addr, out.mem)]
          [] strategy = COLLAPSE_LAST_WINS ->
                 [same EXCEPT !.mem = qarma_collapse_last_wins(addr, out.mem)]
          [] strategy = COLLAPSE_BEST ->
                 IF haveEval
                 THEN [same EXCEPT !.mem = collapse_best(res, out.mem, result_size),
                                   !.called = {"evaluate"}]
                 ELSE same
          [] strategy = COLLAPSE_VOTE -> same
          [] strategy = COLLAPSE_COMBINE ->
                 IF combine = "NULL" THEN same
                 ELSE IF ~haveOut THEN [same EXCEPT !.called = {"combine"}, !.fault = TRUE]
                 ELSE [same EXCEPT !.mem = combine_sums(res, rc, out.mem),
                                   !.called = {"combine"}]
          [] strategy = COLLAPSE_VALIDATE ->
                 IF result_size > 0
                 THEN [same EXCEPT !.mem = qarma_collapse_validate(res, out.mem, result_size)]
                 ELSE same
          [] strategy = COLLAPSE_CUSTOM ->
                 IF custom_collapse = "NULL" THEN same
                 ELSE IF ~haveOut
                      THEN [same EXCEPT !.called = {"custom_collapse"}, !.fault = TRUE]
                 ELSE [same EXCEPT !.mem = custom_count(res, rc, out.mem),
                                   !.called = {"custom_collapse"}]
          [] strategy = COLLAPSE_FUZZY ->
                 IF haveEval /\ haveOut
                 THEN [same EXCEPT !.mem = qarma_collapse_fuzzy(res, out.mem, result_size),
                                   !.called = {"evaluate"}]
                 ELSE same
          [] strategy = COLLAPSE_PROGRESSIVE ->
                 IF haveOut
                 THEN [same EXCEPT
                          !.mem = qarma_collapse_progressive(res, out.mem, result_size, haveEval),
                          !.called = IF haveEval THEN {"evaluate"} ELSE {}]
                 ELSE same
          [] strategy = COLLAPSE_SPECULATIVE ->
                 IF haveEval /\ haveOut
                 THEN [same EXCEPT
                          !.mem = qarma_collapse_speculative(res, out.mem, result_size, haveEval),
                          !.called = IF rc >= 2 THEN {"evaluate"} ELSE {}]
                 ELSE same
          [] strategy = COLLAPSE_TEMPORAL ->
                 IF temporal.alloc /\ haveOut
                 THEN [same EXCEPT
                          !.mem = qarma_collapse_temporal(res, out.mem, result_size,
                                                          haveEval, temporal),
                          !.temporal = IF haveEval
                                       THEN TemporalUpdate(Scores(res), temporal)
                                       ELSE temporal,
                          !.called = IF haveEval THEN {"evaluate"} ELSE {}]
                 ELSE same
          [] strategy = COLLAPSE_ENSEMBLE ->
                 IF ensemble.alloc /\ haveOut
                 THEN [same EXCEPT
                          !.mem = qarma_collapse_ensemble(res, out.mem, result_size),
                          !.called =
                              IF /\ haveEval
                                 /\ \E k \in 1..Len(ensemble.strategies) :
                                       \/ ensemble.strategies[k] \in
                                              {COLLAPSE_BEST, COLLAPSE_FUZZY}
                                       \/ /\ ensemble.strategies[k] = COLLAPSE_TEMPORAL
                                          /\ temporal.alloc
                              THEN {"evaluate"} ELSE {}]
                 ELSE same
          \* COLLAPSE_MULTIDIM: reg->multidim is NULL, the case does nothing
          [] OTHER -> same

NeverCached == FALSE

\* the test  if (reg->collapsed)  at the head of qarma_quantum_collapse
AlreadyCollapsed == collapsed

\* qarma_quantum_collapse(reg) on a register that is already collapsed
CollapseCached ==
    /\ pc \in {"idle", "running"}
    /\ AlreadyCollapsed
    /\ op' = "collapse"
    /\ ret' = collapse_output.owner
    /\ UNCHANGED <<regVars, ctlVars>>
    /\ NoCallbacks
    /\ UNCHANGED outsideRegister

\* qarma_quantum_collapse(reg): a heap_alloc fails (the results array when
\* resultsOk is false, else the output buffer) and the call returns NULL
CollapseNoMemory(resultsOk) ==
    /\ pc \in {"idle", "running"}
    /\ ~AlreadyCollapsed
    /\ resultsOk => (collapse_output.owner = "null" /\ result_size > 0)
    /\ op' = "collapse"
    /\ ret' = "null"
    /\ UNCHANGED <<regVars, ctlVars>>
    /\ NoCallbacks
    /\ UNCHANGED outsideRegister

\* qarma_quantum_collapse(reg): gather, allocate the output once, run the
\* strategy, mark the register collapsed
qarma_quantum_collapse ==
    /\ pc \in {"idle", "running"}
    /\ ~AlreadyCollapsed
    /\ LET g == GatherResults
           out == IF collapse_output.owner = "null" /\ result_size > 0
                  THEN [owner |-> "heap", mem |-> Zeroes(result_size)]
                  ELSE collapse_output
           r == StrategySwitch(g, out)
       IN  /\ gathered' = g
           /\ called' = r.called
           /\ op' = "collapse"
           /\ IF r.fault
              THEN /\ pc' = "fault"
                   /\ ret' = "fault"
                   /\ collapse_output' = out
                   /\ UNCHANGED <<temporal, collapsed>>
              ELSE /\ pc' = pc
                   /\ ret' = out.owner
                   /\ collapse_output' = [out EXCEPT !.mem = r.mem]
                   /\ temporal' = r.temporal
                   /\ collapsed' = TRUE
    /\ UNCHANGED <<qubits, strategy, evaluate, combine, custom_collapse,
                   result_size, executing, completed_count, failed_count,
                   cur, dispatched>>
    /\ UNCHANGED outsideRegister

\* qarma_quantum_collapse(reg) under Ensemble when the heap_alloc of the
\* vote array fails: qarma_collapse_ensemble copies results[0]
CollapseNoVotes ==
    /\ pc \in {"idle", "running"}
    /\ ~AlreadyCollapsed
    /\ strategy = COLLAPSE_ENSEMBLE
    /\ ensemble.alloc
    /\ GatherResults # <<>>
    /\ collapse_output.owner # "null" \/ result_size > 0
    /\ LET g == GatherResults
           out == IF collapse_output.owner = "null"
                  THEN [owner |-> "heap", mem |-> Zeroes(result_size)]
                  ELSE collapse_output
       IN  /\ gathered' = g
           /\ called' = {}
           /\ op' = "collapse_no_votes"
           /\ ret' = out.owner
           /\ collapse_output' =
                 [out EXCEPT !.mem = Memcpy(out.mem, qubits[g[1]].data, result_size)]
           /\ collapsed' = TRUE
    /\ UNCHANGED <<qubits, strategy, evaluate, combine, custom_collapse, temporal,
                   result_size, executing, completed_count, failed_count, ctlVars>>
    /\ UNCHANGED outsideRegister

\* one slot of qarma_quantum_set_ensemble: taken when the strategy is one of
\* the enumeration and the weight is positive
ensemble_slot(e, s, w) ==
    IF s < COLLAPSE_STRATEGY_COUNT /\ w > 0
    THEN [e EXCEPT !.strategies = Append(@, s), !.weights = Append(@, w)]
    ELSE e

\* qarma_quantum_set_ensemble(reg, strategy1, weight1, ..., strategy3, weight3);
\* allocOk is the outcome of heap_alloc when reg->ensemble is NULL
qarma_quantum_set_ensemble(s1, w1, s2, w2, s3, w3, allocOk) ==
    /\ Idle
    /\ op' = "set_ensemble"
    /\ ret' = "void"
    /\ ensemble' =
          IF ~ensemble.alloc /\ ~allocOk THEN ensemble
          ELSE ensemble_slot(
                   ensemble_slot(
                       ensemble_slot([NoEnsemble EXCEPT !.alloc = TRUE], s1, w1),
                       s2, w2),
                   s3, w3)
    /\ UNCHANGED <<regVars, ctlVars>>
    /\ NoCallbacks
    /\ UNCHANGED <<waitVars, adaptVars, busVars, searchVars, threadVars, parVars,
                   observerVars, schedVars>>

\* ------------------------------------------------------------------------
\* Register: wait.  qarma_quantum_wait(reg, timeout_ms) is the loop
\* while (!qarma_quantum_is_complete(reg)) { }  followed by  return true;
\* one pass of the loop that finds the register incomplete takes one
\* millisecond of the caller's time.
\* ------------------------------------------------------------------------
qarma_quantum_wait(timeout_ms) ==
    /\ Idle
    /\ pc' = "wait"
    /\ wait_timeout' = timeout_ms
    /\ waited' = 0
    /\ op' = "wait_begin"
    /\ ret' = "void"
    /\ UNCHANGED <<regVars, cur, dispatched, adaptVars, busVars, searchVars, extVars>>
    /\ NoCallbacks

\* one test of the loop condition
WaitPoll ==
    /\ pc = "wait"
    /\ IF qarma_quantum_is_complete
       THEN /\ pc' = "idle"
            /\ op' = "wait"
            /\ ret' = "true"
            /\ UNCHANGED waited
       ELSE /\ waited' = IF waited < WaitCap THEN waited + 1 ELSE waited
            /\ op' = "wait_poll"
            /\ ret' = "void"
            /\ UNCHANGED pc
    /\ UNCHANGED <<regVars, cur, dispatched, wait_timeout, adaptVars, busVars,
                   searchVars, extVars>>
    /\ NoCallbacks

\* ------------------------------------------------------------------------
\* Adaptive controller (quantum_adaptive.c)
\* ------------------------------------------------------------------------
\* DEFAULT_THRESHOLDS: 5000 ms, 30 %, 50 %, 100 ms
DEFAULT_THRESHOLDS ==
    [timeout_ms |-> 5000, failure_threshold |-> 30,
     quality_threshold |-> 50, check_interval_ms |-> 100]

\* quantum_adaptive_init(reg, policy)
quantum_adaptive_init(policy) ==
    /\ Idle
    /\ adaptive_state' =
          [alloc |-> TRUE, policy |-> policy, thresholds |-> DEFAULT_THRESHOLDS,
           execution_start_time |-> 0, last_check_time |-> 0, switch_count |-> 0,
           original_strategy |-> strategy, current_strategy |-> strategy,
           has_switched |-> FALSE, completed_at_last_check |-> 0,
           failed_at_last_check |-> 0, current_quality |-> 100]
    /\ adaptive_log' = NoChecks
    /\ op' = "adaptive_init"
    /\ ret' = "void"
    /\ UNCHANGED <<regVars, ctlVars, waitVars, busVars, searchVars, extVars>>
    /\ NoCallbacks

\* quantum_adaptive_set_thresholds(reg, thresholds)
quantum_adaptive_set_thresholds(thresholds) ==
    /\ Idle
    /\ adaptive_state' = IF adaptive_state.alloc
                         THEN [adaptive_state EXCEPT !.thresholds = thresholds]
                         ELSE adaptive_state
    /\ op' = "adaptive_set_thresholds"
    /\ ret' = "void"
    /\ UNCHANGED <<regVars, ctlVars, waitVars, adaptive_log, busVars, searchVars, extVars>>
    /\ NoCallbacks

\* choose_alternative_strategy; recommended is the AI observer's answer
choose_alternative_strategy(recommended) ==
    IF recommended = adaptive_state.current_strategy
    THEN (adaptive_state.current_strategy + 1) % (COLLAPSE_STRATEGY_COUNT - 1)
    ELSE recommended

\* should_switch of quantum_adaptive_check, with elapsed = current_time -
\* execution_start_time; rates are compared as cross-multiplied integers
should_switch(elapsed) ==
    LET t == adaptive_state.thresholds
        done == completed_count + failed_count
    IN  CASE adaptive_state.policy = ADAPTIVE_POLICY_TIMEOUT ->
                 elapsed > t.timeout_ms /\ 2 * completed_count < Count
          [] adaptive_state.policy = ADAPTIVE_POLICY_FAILURE_RATE ->
                 done > 0 /\ 100 * failed_count > t.failure_threshold * done
          [] adaptive_state.policy = ADAPTIVE_POLICY_QUALITY ->
                 adaptive_state.current_quality < t.quality_threshold
          [] adaptive_state.policy = ADAPTIVE_POLICY_AGGRESSIVE ->
                 \/ 2 * elapsed > t.timeout_ms /\ 10 * completed_count < 3 * Count
                 \/ done > 0 /\ 1000 * failed_count > 7 * t.failure_threshold * done
          [] OTHER -> FALSE

\* n + 1, for a counter the model stops counting at 2
Bump(n) == IF n < 2 THEN n + 1 ELSE n

SwitchAgain == TRUE

\* the guard  !state->has_switched  of the switch
FirstSwitch == ~adaptive_state.has_switched

\* quantum_adaptive_check(reg)
quantum_adaptive_check(recommended) ==
    /\ pc \in {"idle", "running"}
    /\ op' = "adaptive_check"
    /\ LET current_time == adaptive_state.execution_start_time + SimulatedElapsed
           elapsed == current_time - adaptive_state.execution_start_time
       IN  IF \/ ~adaptive_state.alloc
              \/ ~executing
              \/ adaptive_state.policy = ADAPTIVE_POLICY_NONE
              \/ current_time - adaptive_state.last_check_time
                     < adaptive_state.thresholds.check_interval_ms
           THEN /\ ret' = "false"
                /\ UNCHANGED <<strategy, adaptive_state, adaptive_log>>
           ELSE IF should_switch(elapsed) /\ FirstSwitch
           THEN LET new_strategy == choose_alternative_strategy(recommended)
                IN  /\ strategy' = new_strategy
                    /\ adaptive_state' =
                          [adaptive_state EXCEPT !.last_check_time = current_time,
                                                 !.current_strategy = new_strategy,
                                                 !.has_switched = TRUE,
                                                 !.switch_count = Bump(@)]
                    /\ adaptive_log' =
                          [returned_true |-> Bump(adaptive_log.returned_true),
                           changed |-> IF new_strategy # strategy
                                       THEN Bump(adaptive_log.changed)
                                       ELSE adaptive_log.changed]
                    /\ ret' = "true"
           ELSE /\ adaptive_state' =
                      [adaptive_state EXCEPT !.last_check_time = current_time,
                                             !.completed_at_last_check = completed_count,
                                             !.failed_at_last_check = failed_count]
                /\ ret' = "false"
                /\ UNCHANGED <<strategy, adaptive_log>>
    /\ UNCHANGED <<qubits, evaluate, combine, custom_collapse, temporal,
                   collapse_output, result_size, collapsed, executing,
                   completed_count, failed_count, ctlVars, waitVars, busVars,
                   searchVars, extVars>>
    /\ NoCallbacks

\* quantum_adaptive_reset(reg)
quantum_adaptive_reset ==
    /\ Idle
    /\ IF adaptive_state.alloc
       THEN /\ adaptive_state' =
                  [adaptive_state EXCEPT !.execution_start_time = 0,
                                         !.last_check_time = 0,
                                         !.switch_count = 0,
                                         !.current_strategy = adaptive_state.original_strategy,
                                         !.has_switched = FALSE,
                                         !.completed_at_last_check = 0,
                                         !.failed_at_last_check = 0,
                                         !.current_quality = 100]
            /\ strategy' = adaptive_state.original_strategy
            /\ adaptive_log' = NoChecks
       ELSE UNCHANGED <<adaptive_state, strategy, adaptive_log>>
    /\ op' = "adaptive_reset"
    /\ ret' = "void"
    /\ UNCHANGED <<qubits, evaluate, combine, custom_collapse, temporal,
                   collapse_output, result_size, collapsed, executing,
                   completed_count, failed_count, ctlVars, waitVars, busVars,
                   searchVars, extVars>>
    /\ NoCallbacks

\* ------------------------------------------------------------------------
\* Cross-learning bus (quantum_cross_learning.c)
\* ------------------------------------------------------------------------
\* g_message_queue[k] for a 0-based index k
Slot(k) == (k % MaxCrossMessages) + 1

\* the slots g_queue_head .. g_queue_head + g_queue_count - 1
Queued == [k \in 1..g_queue_count |-> g_message_queue[Slot(g_queue_head + k - 1)]]

\* enqueue_message: the queue array after the memcpy at g_queue_tail
enqueue_message(msg) == [g_message_queue EXCEPT ![Slot(g_queue_tail)] = msg]

\* dequeue_message: offset from the head of the first message whose sender
\* is not qubit_id, or g_queue_count if there is none
RECURSIVE FirstForeign(_, _)
FirstForeign(qubit_id, i) ==
    IF i >= g_queue_count THEN g_queue_count
    ELSE IF g_message_queue[Slot(g_queue_head + i)].sender_id # qubit_id THEN i
    ELSE FirstForeign(qubit_id, i + 1)

\* dequeue_message: the queue array after shifting the later entries down
dequeue_message(i) ==
    [p \in 1..MaxCrossMessages |->
        LET js == {j \in i..(g_queue_count - 2) : Slot(g_queue_head + j) = p}
        IN  IF js = {} THEN g_message_queue[p]
            ELSE g_message_queue[Slot(g_queue_head + (CHOOSE j \in js : TRUE) + 1)]]

never_full == FALSE

\* enqueue_message's test for a full queue
queue_full == g_queue_count >= MaxCrossMessages

\* cross_learning_send_message(sender_id, type, data, size, target);
\* allocOk is heap_alloc's outcome for the payload copy
SendEffect(sender_id, type, payload, allocOk) ==
    LET msg == [type |-> type, sender_id |-> sender_id, data |-> heap_next,
                payload |-> payload]
    IN  IF allocOk /\ ~queue_full
        THEN /\ g_message_queue' = enqueue_message(msg)
             /\ g_queue_tail' = (g_queue_tail + 1) % MaxCrossMessages
             /\ g_queue_count' = g_queue_count + 1
             /\ g_stats' = [g_stats EXCEPT !.messages_sent = @ + 1]
             /\ heap_next' = heap_next + 1
             /\ accepted' = accepted \cup {msg}
        ELSE UNCHANGED <<g_message_queue, g_queue_tail, g_queue_count, g_stats,
                         heap_next, accepted>>

cross_learning_send_message(sender_id, type, payload, allocOk) ==
    /\ Idle
    /\ heap_next <= MaxSends
    /\ SendEffect(sender_id, type, payload, allocOk)
    /\ op' = "send"
    /\ ret' = Bool(allocOk /\ ~queue_full)
    /\ UNCHANGED <<g_queue_head, g_best_solution, returned, out_msg, best_qubit_id,
                   best_made>>
    /\ UNCHANGED <<regVars, ctlVars, waitVars, adaptVars, searchVars, extVars>>
    /\ NoCallbacks

\* cross_learning_receive_message(qubit_id, out_msg) on the bus variables
ReceiveEffect(qubit_id) ==
    LET i == FirstForeign(qubit_id, 0)
        msg == g_message_queue[Slot(g_queue_head + i)]
    IN  IF i < g_queue_count
        THEN /\ out_msg' = msg
             /\ g_message_queue' = dequeue_message(i)
             /\ g_queue_count' = g_queue_count - 1
             /\ g_stats' = [g_stats EXCEPT !.messages_received = @ + 1]
             /\ returned' = Append(returned, msg)
        ELSE UNCHANGED <<out_msg, g_message_queue, g_queue_count, g_stats, returned>>

Receives(qubit_id) == FirstForeign(qubit_id, 0) < g_queue_count

cross_learning_receive_message(qubit_id) ==
    /\ Idle
    /\ ReceiveEffect(qubit_id)
    /\ op' = "receive"
    /\ ret' = Bool(Receives(qubit_id))
    /\ UNCHANGED <<g_queue_head, g_queue_tail, g_best_solution, heap_next,
                   accepted, best_qubit_id, best_made>>
    /\ UNCHANGED <<regVars, ctlVars, waitVars, adaptVars, searchVars, extVars>>
    /\ NoCallbacks

BroadcastWithoutBest(sender_id, payload, quality_score, bestOk, sendOk) ==
    /\ UNCHANGED g_best_solution
    /\ SendEffect(sender_id, MSG_BEST_FOUND, payload, sendOk)

\* cross_learning_broadcast_best on the bus variables: the global best is
\* replaced if this one is better and its copy can be allocated, then the
\* solution is sent as a MSG_BEST_FOUND message
BroadcastEffect(sender_id, payload, quality_score, bestOk, sendOk) ==
    /\ g_best_solution' =
          IF /\ ~g_best_solution.has_solution
                   \/ quality_score > g_best_solution.quality_score
             /\ bestOk
          THEN [has_solution |-> TRUE, qubit_id |-> sender_id,
                quality_score |-> quality_score, data |-> payload]
          ELSE IF ~g_best_solution.has_solution
                     \/ quality_score > g_best_solution.quality_score
          THEN [g_best_solution EXCEPT !.data = 0]
          ELSE g_best_solution
    /\ SendEffect(sender_id, MSG_BEST_FOUND, payload, sendOk)

cross_learning_broadcast_best(sender_id, payload, quality_score, bestOk, sendOk) ==
    /\ Idle
    /\ heap_next <= MaxSends
    /\ BroadcastEffect(sender_id, payload, quality_score, bestOk, sendOk)
    /\ op' = "broadcast_best"
    /\ ret' = "void"
    /\ best_made' = Broadcast(sender_id, quality_score)
    /\ UNCHANGED <<g_queue_head, returned, out_msg, best_qubit_id>>
    /\ UNCHANGED <<regVars, ctlVars, waitVars, adaptVars, searchVars, extVars>>
    /\ NoCallbacks

\* cross_learning_check_convergence(&best_qubit_id)
cross_learning_check_convergence ==
    /\ Idle
    /\ op' = "check_convergence"
    /\ ret' = Bool(g_best_solution.has_solution)
    /\ best_qubit_id' = IF g_best_solution.has_solution
                        THEN g_best_solution.qubit_id ELSE best_qubit_id
    /\ UNCHANGED <<g_message_queue, g_queue_head, g_queue_tail, g_queue_count,
                   g_best_solution, g_stats, heap_next, accepted, returned, out_msg,
                   best_made>>
    /\ UNCHANGED <<regVars, ctlVars, waitVars, adaptVars, searchVars, extVars>>
    /\ NoCallbacks

\* cross_learning_clear_messages: the queue is emptied, its messages freed
cross_learning_clear_messages ==
    /\ Idle
    /\ g_message_queue' =
          [p \in 1..MaxCrossMessages |->
              IF \E k \in 0..(g_queue_count - 1) : p = Slot(g_queue_head + k)
              THEN [g_message_queue[p] EXCEPT !.data = 0]
              ELSE g_message_queue[p]]
    /\ g_queue_head' = 0
    /\ g_queue_tail' = 0
    /\ g_queue_count' = 0
    /\ g_best_solution' = [g_best_solution EXCEPT !.has_solution = FALSE, !.data = 0]
    /\ accepted' = {}
    /\ returned' = <<>>
    /\ op' = "clear_messages"
    /\ ret' = "void"
    /\ best_made' = NoBroadcast
    /\ UNCHANGED <<g_stats, heap_next, out_msg, best_qubit_id>>
    /\ UNCHANGED <<regVars, ctlVars, waitVars, adaptVars, searchVars, extVars>>
    /\ NoCallbacks

\* quantum_cross_learning_init: indices, statistics and best solution are
\* cleared; the slots keep their contents
quantum_cross_learning_init ==
    /\ Idle
    /\ g_queue_head' = 0
    /\ g_queue_tail' = 0
    /\ g_queue_count' = 0
    /\ g_stats' = [messages_sent |-> 0, messages_received |-> 0]
    /\ g_best_solution' = NoSolution
    /\ accepted' = {}
    /\ returned' = <<>>
    /\ op' = "cross_learning_init"
    /\ ret' = "void"
    /\ best_made' = NoBroadcast
    /\ UNCHANGED <<g_message_queue, heap_next, out_msg, best_qubit_id>>
    /\ UNCHANGED <<regVars, ctlVars, waitVars, adaptVars, searchVars, extVars>>
    /\ NoCallbacks

\* ------------------------------------------------------------------------
\* The bus called from several threads: the same functions, one load or
\* store of the shared statics per step (the source takes no lock)
\* ------------------------------------------------------------------------
ThreadAt(t, where) == Idle /\ bus_threads[t].pc = where

ThreadGoes(t, where) == bus_threads' = [bus_threads EXCEPT ![t].pc = where]

ThreadStep(name, result) ==
    /\ op' = name
    /\ ret' = result
    /\ UNCHANGED <<regVars, ctlVars, waitVars, adaptVars, searchVars>>
    /\ NoCallbacks

\* cross_learning_send_message entered by thread t: the payload copy is
\* allocated and the local message built
ThreadSend(t, type, payload) ==
    /\ ThreadAt(t, "idle")
    /\ heap_next <= MaxThreadCalls
    /\ bus_threads' = [bus_threads EXCEPT
                         ![t].pc = "enqueue_check",
                         ![t].msg = [type |-> type, sender_id |-> t,
                                     data |-> heap_next, payload |-> payload]]
    /\ heap_next' = heap_next + 1
    /\ ThreadStep("send_begin", "none")
    /\ UNCHANGED <<g_message_queue, g_queue_head, g_queue_tail, g_queue_count,
                   g_best_solution, g_stats, accepted, returned, out_msg,
                   best_qubit_id, best_made, broadcasts,
                   parVars,
                   observerVars, schedVars, ensVars>>

\* enqueue_message: if (g_queue_count >= MAX_CROSS_MESSAGES) return FALSE
EnqueueCheck(t) ==
    /\ ThreadAt(t, "enqueue_check")
    /\ IF g_queue_count >= MaxCrossMessages
       THEN bus_threads' = [bus_threads EXCEPT ![t] = IdleThread]
       ELSE ThreadGoes(t, "enqueue_copy")
    /\ ThreadStep("send_step", Bool(g_queue_count < MaxCrossMessages))
    /\ UNCHANGED <<busVars, broadcasts, parVars, observerVars, schedVars, ensVars>>

\* enqueue_message: memcpy(&g_message_queue[g_queue_tail], msg, ...)
EnqueueCopy(t) ==
    /\ ThreadAt(t, "enqueue_copy")
    /\ g_message_queue' = enqueue_message(bus_threads[t].msg)
    /\ ThreadGoes(t, "tail_load")
    /\ ThreadStep("send_step", "none")
    /\ UNCHANGED <<g_queue_head, g_queue_tail, g_queue_count, g_best_solution,
                   g_stats, heap_next, accepted, returned, out_msg,
                   best_qubit_id, best_made, broadcasts,
                   parVars,
                   observerVars, schedVars, ensVars>>

\* enqueue_message: g_queue_tail = (g_queue_tail + 1) % MAX, the load
EnqueueTailLoad(t) ==
    /\ ThreadAt(t, "tail_load")
    /\ bus_threads' = [bus_threads EXCEPT ![t].pc = "tail_store",
                                          ![t].t = g_queue_tail]
    /\ ThreadStep("send_step", "none")
    /\ UNCHANGED <<busVars, broadcasts, parVars, observerVars, schedVars, ensVars>>

\* ... and the store
EnqueueTailStore(t) ==
    /\ ThreadAt(t, "tail_store")
    /\ g_queue_tail' = (bus_threads[t].t + 1) % MaxCrossMessages
    /\ ThreadGoes(t, "count_load")
    /\ ThreadStep("send_step", "none")
    /\ UNCHANGED <<g_message_queue, g_queue_head, g_queue_count, g_best_solution,
                   g_stats, heap_next, accepted, returned, out_msg,
                   best_qubit_id, best_made, broadcasts,
                   parVars,
                   observerVars, schedVars, ensVars>>

\* enqueue_message: g_queue_count++, the load
EnqueueCountLoad(t) ==
    /\ ThreadAt(t, "count_load")
    /\ bus_threads' = [bus_threads EXCEPT ![t].pc = "count_store",
                                          ![t].t = g_queue_count]
    /\ ThreadStep("send_step", "none")
    /\ UNCHANGED <<busVars, broadcasts, parVars, observerVars, schedVars, ensVars>>

\* ... the store; enqueue_message returns TRUE, send counts the message
\* and returns TRUE
EnqueueCountStore(t) ==
    /\ ThreadAt(t, "count_store")
    /\ g_queue_count' = bus_threads[t].t + 1
    /\ g_stats' = [g_stats EXCEPT !.messages_sent = @ + 1]
    /\ accepted' = accepted \cup {bus_threads[t].msg}
    /\ bus_threads' = [bus_threads EXCEPT ![t] = IdleThread]
    /\ ThreadStep("send", "true")
    /\ UNCHANGED <<g_message_queue, g_queue_head, g_queue_tail, g_best_solution,
                   heap_next, returned, out_msg, best_qubit_id, best_made, broadcasts,
                   parVars,
                   observerVars, schedVars, ensVars>>

\* cross_learning_receive_message entered by thread t: dequeue_message scans
\* for the first message of another sender and copies it out, or returns
\* FALSE
ThreadReceive(t) ==
    /\ ThreadAt(t, "idle")
    /\ LET i == FirstForeign(t, 0)
       IN  IF i < g_queue_count
           THEN bus_threads' = [bus_threads EXCEPT
                                   ![t].pc = "dequeue_shift",
                                   ![t].idx = i,
                                   ![t].msg = g_message_queue[Slot(g_queue_head + i)]]
           ELSE UNCHANGED bus_threads
    /\ ThreadStep("receive_begin", Bool(Receives(t)))
    /\ UNCHANGED <<busVars, broadcasts, parVars, observerVars, schedVars, ensVars>>

\* dequeue_message: the later entries are shifted down
DequeueShift(t) ==
    /\ ThreadAt(t, "dequeue_shift")
    /\ g_message_queue' = dequeue_message(bus_threads[t].idx)
    /\ ThreadGoes(t, "uncount_load")
    /\ ThreadStep("receive_step", "none")
    /\ UNCHANGED <<g_queue_head, g_queue_tail, g_queue_count, g_best_solution,
                   g_stats, heap_next, accepted, returned, out_msg,
                   best_qubit_id, best_made, broadcasts,
                   parVars,
                   observerVars, schedVars, ensVars>>

\* dequeue_message: g_queue_count--, the load
DequeueCountLoad(t) ==
    /\ ThreadAt(t, "uncount_load")
    /\ bus_threads' = [bus_threads EXCEPT ![t].pc = "uncount_store",
                                          ![t].t = g_queue_count]
    /\ ThreadStep("receive_step", "none")
    /\ UNCHANGED <<busVars, broadcasts, parVars, observerVars, schedVars, ensVars>>

\* ... the store; receive counts the message and returns TRUE.  (With one
\* receiving thread the value loaded is at least 1: senders store counts
\* of 1 or more.)
DequeueCountStore(t) ==
    /\ ThreadAt(t, "uncount_store")
    /\ g_queue_count' = bus_threads[t].t - 1
    /\ g_stats' = [g_stats EXCEPT !.messages_received = @ + 1]
    /\ out_msg' = bus_threads[t].msg
    /\ returned' = Append(returned, bus_threads[t].msg)
    /\ bus_threads' = [bus_threads EXCEPT ![t] = IdleThread]
    /\ ThreadStep("receive", "true")
    /\ UNCHANGED <<g_message_queue, g_queue_head, g_queue_tail, g_best_solution,
                   heap_next, accepted, best_qubit_id, best_made, broadcasts,
                   parVars,
                   observerVars, schedVars, ensVars>>

\* the test of cross_learning_broadcast_best
Better(quality_score) ==
    \/ ~g_best_solution.has_solution
    \/ quality_score > g_best_solution.quality_score

\* cross_learning_broadcast_best entered by thread t: the global best is
\* compared with quality_score
ThreadBroadcast(t, payload, quality_score) ==
    /\ ThreadAt(t, "idle")
    /\ heap_next <= MaxThreadCalls
    /\ broadcasts' = broadcasts \cup {<<t, quality_score>>}
    /\ bus_threads' = [bus_threads EXCEPT
                         ![t].pc = IF Better(quality_score)
                                   THEN "best_id" ELSE "best_send",
                         ![t].quality = quality_score,
                         ![t].msg = [NoMessage EXCEPT !.payload = payload]]
    /\ ThreadStep("broadcast_begin", "none")
    /\ UNCHANGED <<busVars, parVars, observerVars, schedVars, ensVars>>

\* g_best_solution.data and .qubit_id are written
BestId(t) ==
    /\ ThreadAt(t, "best_id")
    /\ g_best_solution' = [g_best_solution EXCEPT
                             !.data = bus_threads[t].msg.payload,
                             !.qubit_id = t]
    /\ ThreadGoes(t, "best_quality")
    /\ ThreadStep("broadcast_step", "none")
    /\ UNCHANGED <<g_message_queue, g_queue_head, g_queue_tail, g_queue_count,
                   g_stats, heap_next, accepted, returned, out_msg,
                   best_qubit_id, best_made, broadcasts,
                   parVars,
                   observerVars, schedVars, ensVars>>

\* g_best_solution.quality_score and .has_solution are written
BestQuality(t) ==
    /\ ThreadAt(t, "best_quality")
    /\ g_best_solution' = [g_best_solution EXCEPT
                             !.quality_score = bus_threads[t].quality,
                             !.has_solution = TRUE]
    /\ ThreadGoes(t, "best_send")
    /\ ThreadStep("broadcast_step", "none")
    /\ UNCHANGED <<g_message_queue, g_queue_head, g_queue_tail, g_queue_count,
                   g_stats, heap_next, accepted, returned, out_msg,
                   best_qubit_id, best_made, broadcasts,
                   parVars,
                   observerVars, schedVars, ensVars>>

\* the solution is sent as a MSG_BEST_FOUND message
BestSend(t) ==
    /\ ThreadAt(t, "best_send")
    /\ bus_threads' = [bus_threads EXCEPT
                         ![t].pc = "enqueue_check",
                         ![t].msg = [type |-> MSG_BEST_FOUND, sender_id |-> t,
                                     data |-> heap_next,
                                     payload |-> bus_threads[t].msg.payload]]
    /\ heap_next' = heap_next + 1
    /\ ThreadStep("broadcast_step", "none")
    /\ UNCHANGED <<g_message_queue, g_queue_head, g_queue_tail, g_queue_count,
                   g_best_solution, g_stats, accepted, returned, out_msg,
                   best_qubit_id, best_made, broadcasts,
                   parVars,
                   observerVars, schedVars, ensVars>>

\* ------------------------------------------------------------------------
\* AI observer (quantum_ai_observer.c).  Floats are exact fractions
\* <<numerator, denominator>>; avg_quality is in thousandths.
\* ------------------------------------------------------------------------
INITIAL_DB_CAPACITY == 32

Max2(a, b) == IF a > b THEN a ELSE b
Min2(a, b) == IF a < b THEN a ELSE b

\* profile_similarity(a, b): the weighted sum over the weight sum, both
\* multiplied by 10 * (larger time) * (larger size)
profile_similarity(a, b) ==
    LET diff == Max2(a.qubit_count, b.qubit_count)
                   - Min2(a.qubit_count, b.qubit_count)
        qsim == IF diff < 10 THEN 10 - diff ELSE 0
        timed == a.avg_execution_time > 0 /\ b.avg_execution_time > 0
        tmax == IF timed THEN Max2(a.avg_execution_time, b.avg_execution_time) ELSE 1
        tmin == IF timed THEN Min2(a.avg_execution_time, b.avg_execution_time) ELSE 0
        sized == a.data_size > 0 /\ b.data_size > 0
        smax == IF sized THEN Max2(a.data_size, b.data_size) ELSE 1
        smin == IF sized THEN Min2(a.data_size, b.data_size) ELSE 0
        eval == IF a.has_evaluation = b.has_evaluation THEN 1 ELSE 0
        all == IF a.requires_all = b.requires_all THEN 1 ELSE 0
    IN  << 30 * qsim * tmax * smax + 250 * tmin * smax
              + 150 * (eval + all) * tmax * smax + 150 * smin * tmax,
           (300 + (IF timed THEN 250 ELSE 0) + 150 * (eval + all)
              + (IF sized THEN 150 ELSE 0)) * tmax * smax >>

\* x > y and x >= 0.8 for fractions with positive denominators
FracGreater(x, y) == x[1] * y[2] > y[1] * x[2]
AtLeastThreshold(x) == 5 * x[1] >= 4 * x[2]

\* the matching loop of find_or_create_entry and recommend_strategy: index
\* of the first entry of the highest similarity above 0, or 0
RECURSIVE BestMatchFrom(_, _, _, _)
BestMatchFrom(profile, i, best, best_similarity) ==
    IF i > Len(g_observer.learning_db) THEN best
    ELSE LET sim == profile_similarity(profile, g_observer.learning_db[i].profile)
         IN  IF FracGreater(sim, best_similarity)
             THEN BestMatchFrom(profile, i + 1, i, sim)
             ELSE BestMatchFrom(profile, i + 1, best, best_similarity)

BestMatch(profile) == BestMatchFrom(profile, 1, 0, <<0, 1>>)

GoodMatch(profile) ==
    /\ BestMatch(profile) # 0
    /\ AtLeastThreshold(profile_similarity(profile,
                            g_observer.learning_db[BestMatch(profile)].profile))

NoMetrics ==
    [total_uses |-> 0, success_count |-> 0, total_time |-> 0, avg_quality |-> 0,
     last_used |-> 0]

\* the entry find_or_create_entry initialises
NewEntry(profile) ==
    [profile |-> profile, observation_count |-> 0, confidence |-> <<0, 1>>,
     metrics |-> [k \in 0..(COLLAPSE_STRATEGY_COUNT - 1) |-> NoMetrics]]

ramp_restarts(n) == <<n % 10, 10>>

\* entry->confidence for observation_count = n
confidence_ramp(n) == IF n >= 10 THEN <<n - 1, n>> ELSE <<n, 10>>

\* the updates quantum_ai_observe_complete makes to its entry
ObserveEntry(entry, used, wasCollapsed, elapsed_ms, quality) ==
    LET m == entry.metrics[used]
        counted ==
            [entry EXCEPT
                !.observation_count = @ + 1,
                !.confidence = confidence_ramp(entry.observation_count + 1)]
    IN  IF used < COLLAPSE_STRATEGY_COUNT
        THEN [counted EXCEPT !.metrics[used] =
                [total_uses |-> m.total_uses + 1,
                 success_count |-> m.success_count + (IF wasCollapsed THEN 1 ELSE 0),
                 total_time |-> m.total_time + elapsed_ms,
                 avg_quality |-> (m.avg_quality * 7 + quality * 3) \div 10,
                 last_used |-> g_observer.total_observations]]
        ELSE counted

ObserverStep(name) ==
    /\ op' = name
    /\ ret' = "void"
    /\ NoCallbacks
    /\ UNCHANGED <<regVars, ctlVars, waitVars, adaptVars, busVars, searchVars,
                   threadVars, parVars, schedVars, ensVars>>

\* quantum_ai_observe_complete(reg, elapsed_ms, quality) for a register of
\* the given profile, strategy and collapsed flag; allocOk is the outcome of
\* heap_alloc should the database have to grow
quantum_ai_observe_complete(profile, used, wasCollapsed, elapsed_ms, quality, allocOk) ==
    /\ Idle
    /\ g_observer.total_observations < MaxObservations
    /\ LET db == g_observer.learning_db
           grows == Len(db) >= g_observer.db_capacity
           k == IF GoodMatch(profile) THEN BestMatch(profile) ELSE Len(db) + 1
           entry == IF GoodMatch(profile) THEN db[k] ELSE NewEntry(profile)
           updated == ObserveEntry(entry, used, wasCollapsed, elapsed_ms, quality)
       IN  IF ~g_observer.enabled \/ (~GoodMatch(profile) /\ grows /\ ~allocOk)
           THEN UNCHANGED <<g_observer, observed>>
           ELSE /\ g_observer' =
                     [g_observer EXCEPT
                        !.learning_db = IF GoodMatch(profile)
                                        THEN [db EXCEPT ![k] = updated]
                                        ELSE Append(db, updated),
                        !.db_capacity =
                            IF GoodMatch(profile) \/ ~grows THEN @
                            ELSE IF @ = 0 THEN INITIAL_DB_CAPACITY ELSE @ * 2,
                        !.total_observations = @ + 1]
                /\ observed' = [profile |-> profile, entry |-> k]
    /\ UNCHANGED advice
    /\ ObserverStep("observe_complete")

\* quantum_ai_reset_learning()
quantum_ai_reset_learning ==
    /\ Idle
    /\ g_observer' = [g_observer EXCEPT !.learning_db = <<>>, !.db_capacity = 0,
                                        !.total_observations = 0]
    /\ observed' = NothingObserved
    /\ UNCHANGED advice
    /\ ObserverStep("reset_learning")

\* quantum_ai_set_enabled(enabled)
quantum_ai_set_enabled(enabled) ==
    /\ Idle
    /\ g_observer' = [g_observer EXCEPT !.enabled = enabled]
    /\ UNCHANGED <<observed, advice>>
    /\ ObserverStep("ai_set_enabled")

\* the static heuristics of quantum_ai_recommend_strategy
LOW_VARIANCE == 100

heuristic_strategy(profile) ==
    IF profile.has_evaluation THEN COLLAPSE_BEST
    ELSE IF profile.requires_all THEN COLLAPSE_COMBINE
    ELSE IF profile.variance < LOW_VARIANCE THEN COLLAPSE_FIRST_WINS
    ELSE COLLAPSE_VALIDATE

never_low(entry) == FALSE

\* entry->confidence < 0.5f
LowConfidence(entry) == 2 * entry.confidence[1] < entry.confidence[2]

\* score = avg_quality * success_rate / (avg_time + 1) of one strategy's
\* metrics, as the fraction avg_quality * success_count over
\* total_time + total_uses
strategy_score(m) == <<m.avg_quality * m.success_count, m.total_time + m.total_uses>>

\* the scoring loop: the first strategy of the highest score above 0
RECURSIVE BestStrategyFrom(_, _, _, _)
BestStrategyFrom(entry, i, best_strategy, best_score) ==
    IF i >= COLLAPSE_STRATEGY_COUNT THEN best_strategy
    ELSE IF entry.metrics[i].total_uses = 0
    THEN BestStrategyFrom(entry, i + 1, best_strategy, best_score)
    ELSE IF FracGreater(strategy_score(entry.metrics[i]), best_score)
    THEN BestStrategyFrom(entry, i + 1, i, strategy_score(entry.metrics[i]))
    ELSE BestStrategyFrom(entry, i + 1, best_strategy, best_score)

\* what quantum_ai_recommend_strategy(profile) returns
recommend_strategy(profile) ==
    IF ~g_observer.enabled THEN COLLAPSE_FIRST_WINS
    ELSE IF \/ ~GoodMatch(profile)
            \/ LowConfidence(g_observer.learning_db[BestMatch(profile)])
    THEN heuristic_strategy(profile)
    ELSE BestStrategyFrom(g_observer.learning_db[BestMatch(profile)], 0,
                          COLLAPSE_FIRST_WINS, <<0, 1>>)

\* quantum_ai_recommend_strategy(profile)
quantum_ai_recommend_strategy(profile) ==
    /\ Idle
    /\ advice' = <<[profile |-> profile, strategy |-> recommend_strategy(profile)]>>
    /\ UNCHANGED <<g_observer, observed>>
    /\ ObserverStep("recommend_strategy")

\* ------------------------------------------------------------------------
\* Distributed search over the bus (search_with_communication)
\* ------------------------------------------------------------------------
\* target and ranges of example_cross_system_learning at the model's scale
ScaledTarget == (SearchTarget * RangeWidth) \div SearchRange

search_start(q) == (q - 1) * RangeWidth

search_end(q) == q * RangeWidth

\* tasks[] as the example fills it; qubit q has qubit_id q - 1
SearchTasks ==
    [q \in 1..SearchQubits |->
        [qubit_id |-> q - 1, i |-> search_start(q), state |-> "loop", result |-> 0]]

\* one pass of the for loop of qubit q at index i: receive, compare with the
\* target, advance; the loop test that follows the advance is taken with it
SearchStep(q) ==
    LET t == tasks.run[q]
        got == Receives(t.qubit_id)
        msg == g_message_queue[Slot(g_queue_head + FirstForeign(t.qubit_id, 0))]
    IN  /\ t.state = "loop"
        /\ ReceiveEffect(t.qubit_id)
        /\ tasks' =
              IF got /\ msg.type = MSG_BEST_FOUND
              THEN [tasks EXCEPT !.run[q].state = "returned", !.run[q].result = 1,
                                 !.found = TRUE, !.found_at = msg.payload]
              ELSE IF t.i = ScaledTarget
              THEN [tasks EXCEPT !.run[q].state = "found",
                                 !.found = TRUE, !.found_at = t.i]
              ELSE IF t.i + 1 < search_end(q)
              THEN [tasks EXCEPT !.run[q].i = t.i + 1]
              ELSE [tasks EXCEPT !.run[q].i = t.i + 1, !.run[q].state = "returned",
                                 !.run[q].result = -1]
        /\ op' = "search"
        /\ ret' = Bool(got)
        /\ UNCHANGED <<g_queue_head, g_queue_tail, g_best_solution, heap_next,
                       accepted, best_qubit_id, best_made>>
        /\ UNCHANGED <<regVars, ctlVars, waitVars, adaptVars, extVars>>
        /\ NoCallbacks

\* the qubit that found the target broadcasts its index and returns 0
SearchBroadcast(q) ==
    LET t == tasks.run[q]
    IN  /\ t.state = "found"
        /\ BroadcastEffect(t.qubit_id, t.i, FoundQuality, TRUE, TRUE)
        /\ tasks' = [tasks EXCEPT !.run[q].state = "returned", !.run[q].result = 0]
        /\ op' = "search"
        /\ ret' = "void"
        /\ best_made' = Broadcast(t.qubit_id, FoundQuality)
        /\ UNCHANGED <<g_queue_head, returned, out_msg, best_qubit_id>>
        /\ UNCHANGED <<regVars, ctlVars, waitVars, adaptVars, extVars>>
        /\ NoCallbacks

\* ------------------------------------------------------------------------
\* The register driven by its caller
\* ------------------------------------------------------------------------
Functions == {"NULL", "compute_sum"}
ResultSizes == {0, StructWords}
Strategies == 0..(COLLAPSE_STRATEGY_COUNT - 1)

\* three redundant computations of 10 + 20, one of them fed a wrong operand
Operands == <<10, 20, 0>>
Corrupted == <<10, 21, 0>>

Init == InitRegister(NQ)

Execute ==
    \/ ExecuteBegin
    \/ ExecuteRefused
    \/ DispatchSkip
    \/ DispatchFail
    \/ WrapperNoFunction
    \/ WrapperStart
    \/ WrapperFinish
    \/ ExecuteReturn
    \/ ExecuteSyncReturn

Collapse ==
    \/ CollapseCached
    \/ \E ok \in BOOLEAN : CollapseNoMemory(ok)
    \/ qarma_quantum_collapse

\* Qubit lifecycle: any qubit configuration, any strategy, no callbacks
Next ==
    \/ \E i \in 1..(Count + 1), f \in Functions, d \in {NullPtr, Operands} :
          qarma_qubit_init(i, f, d, 0, TRUE)
    \/ \E i \in 1..(Count + 1), e \in BOOLEAN : qarma_qubit_set_enabled(i, e)
    \/ \E s \in {COLLAPSE_FIRST_WINS, COLLAPSE_COMBINE, COLLAPSE_VALIDATE} :
          qarma_quantum_set_collapse(s)
    \/ Execute
    \/ Collapse
    \/ qarma_quantum_register_reset
    \/ \E t \in {0, 1} : qarma_quantum_wait(t)
    \/ WaitPoll

Spec == Init /\ [][Next]_vars

\* Collapse strategies: a register of redundant computations whose callbacks,
\* temporal history and output size have been configured
InitCollapse ==
    /\ InitOutside
    /\ qubits = qarma_quantum_register_create(NQ)
    /\ strategy = COLLAPSE_CUSTOM
    /\ evaluate = "evaluate"
    /\ combine = "combine_sums"
    /\ custom_collapse = "custom_count"
    /\ temporal = [NoTemporal EXCEPT !.alloc = TRUE, !.window_size = NQ,
                                     !.trend_weight = 50,
                                     !.quality_history = Zeroes(NQ)]
    /\ collapse_output = NullBuf
    /\ result_size = StructWords
    /\ collapsed = FALSE
    /\ executing = FALSE
    /\ completed_count = 0
    /\ failed_count = 0
    /\ pc = "idle"
    /\ cur = 0
    /\ dispatched = 0
    /\ op = "set_custom_collapse"
    /\ ret = "void"
    /\ called = {}
    /\ gathered = <<>>

NextCollapse ==
    \/ \E i \in 1..Count :
          qarma_qubit_init(i, "compute_sum", IF i = 1 THEN Operands ELSE Corrupted,
                           0, TRUE)
    \/ \E s \in Strategies : qarma_quantum_set_collapse(s)
    \/ ExecuteBegin
    \/ ExecuteRefused
    \/ DispatchSkip
    \/ WrapperStart
    \/ WrapperFinish
    \/ ExecuteReturn
    \/ Collapse
    \/ qarma_quantum_register_reset

SpecCollapse == InitCollapse /\ [][NextCollapse]_vars

\* ------------------------------------------------------------------------
\* Redundant computation under Validate (example_redundant_computation)
\* ------------------------------------------------------------------------
NextValidate ==
    \/ \E i \in 1..Count, d \in {Operands, Corrupted} :
          qarma_qubit_init(i, "compute_sum", d, 0, TRUE)
    \/ \E i \in 1..Count : qarma_qubit_set_enabled(i, FALSE)
    \/ \E s \in {COLLAPSE_FIRST_WINS, COLLAPSE_VALIDATE} : qarma_quantum_set_collapse(s)
    \/ \E n \in ResultSizes : set_result_size(n)
    \/ ExecuteBegin
    \/ DispatchSkip
    \/ WrapperStart
    \/ WrapperFinish
    \/ ExecuteSyncReturn
    \/ Collapse
    \/ qarma_quantum_register_reset

SpecValidate == Init /\ [][NextValidate]_vars

\* ------------------------------------------------------------------------
\* Data-parallel sum under Combine (example_data_parallel)
\* ------------------------------------------------------------------------
\* ranges[i] as the example fills it
SumRange(i) == <<(i - 1) * RangeCount, RangeCount, 0>>

\* the register when the example reaches qarma_quantum_execute_sync
InitSum ==
    /\ InitOutside
    /\ qubits = [i \in 1..SumQubits |->
                    [enabled |-> TRUE, status |-> "PENDING",
                     function |-> "sum_range", data |-> SumRange(i),
                     result_size |-> 0]]
    /\ strategy = COLLAPSE_COMBINE
    /\ evaluate = "NULL"
    /\ combine = "combine_sums"
    /\ custom_collapse = "NULL"
    /\ temporal = NoTemporal
    /\ collapse_output = [owner |-> "caller", mem |-> Zeroes(1)]
    /\ result_size = 0
    /\ collapsed = FALSE
    /\ executing = FALSE
    /\ completed_count = 0
    /\ failed_count = 0
    /\ pc = "idle"
    /\ cur = 0
    /\ dispatched = 0
    /\ op = "set_collapse_output"
    /\ ret = "void"
    /\ called = {}
    /\ gathered = <<>>

NextSum ==
    \/ \E i \in 1..Count : qarma_qubit_set_enabled(i, FALSE)
    \/ ExecuteBegin
    \/ DispatchSkip
    \/ DispatchFail
    \/ WrapperStart
    \/ WrapperFinish
    \/ ExecuteSyncReturn
    \/ Collapse
    \/ qarma_quantum_register_reset

SpecSum == InitSum /\ [][NextSum]_vars

\* ------------------------------------------------------------------------
\* The bus driven by two qubits
\* ------------------------------------------------------------------------
BusQubits == {0, 1}

NextBus ==
    \/ \E q \in BusQubits, ok \in BOOLEAN :
          cross_learning_send_message(q, MSG_PARTIAL_RESULT, 7, ok)
    \/ \E q \in BusQubits : cross_learning_receive_message(q)
    \/ \E q \in BusQubits, quality \in {50, FoundQuality}, ok \in BOOLEAN :
          cross_learning_broadcast_best(q, 9, quality, ok, ok)
    \/ cross_learning_check_convergence
    \/ cross_learning_clear_messages
    \/ quantum_cross_learning_init

SpecBus == Init /\ [][NextBus]_vars

\* ------------------------------------------------------------------------
\* The six search qubits in any interleaving, then the convergence check
\* ------------------------------------------------------------------------
InitSearch ==
    /\ qubits = qarma_quantum_register_create(NQ)
    /\ strategy = COLLAPSE_FIRST_WINS
    /\ evaluate = "NULL"
    /\ combine = "NULL"
    /\ custom_collapse = "NULL"
    /\ temporal = NoTemporal
    /\ collapse_output = NullBuf
    /\ result_size = 0
    /\ collapsed = FALSE
    /\ executing = FALSE
    /\ completed_count = 0
    /\ failed_count = 0
    /\ pc = "idle"
    /\ cur = 0
    /\ dispatched = 0
    /\ op = "cross_learning_init"
    /\ ret = "void"
    /\ called = {}
    /\ gathered = <<>>
    /\ wait_timeout = 0
    /\ waited = 0
    /\ adaptive_state = NoAdaptive
    /\ adaptive_log = NoChecks
    /\ InitBus
    /\ tasks = [run |-> SearchTasks, found |-> FALSE, found_at |-> 0]
    /\ bus_threads = [t \in BusThreads |-> IdleThread]
    /\ broadcasts = {}
    /\ workers = NoWorkers
    /\ g_observer = NoObserver
    /\ observed = NothingObserved
    /\ advice = <<>>
    /\ g_scheduler = NoScheduler
    /\ learned = <<>>
    /\ order_out = NoOrder
    /\ pred_reads = {}
    /\ ensemble = NoEnsemble

NextSearch ==
    \/ \E q \in 1..SearchQubits : SearchStep(q)
    \/ \E q \in 1..SearchQubits : SearchBroadcast(q)
    \/ cross_learning_check_convergence

SpecSearch == InitSearch /\ [][NextSearch]_vars

\* ------------------------------------------------------------------------
\* The adaptive controller on an executing register
\* ------------------------------------------------------------------------
Policies == ADAPTIVE_POLICY_NONE..ADAPTIVE_POLICY_AGGRESSIVE

\* thresholds under which the quality and failure-rate conditions hold at
\* every check, and checks are never skipped for the interval
AlwaysFiring ==
    [timeout_ms |-> 50, failure_threshold |-> 0,
     quality_threshold |-> 150, check_interval_ms |-> 0]

\* a register whose qubits have all been initialised with compute_sum
InitAdaptive ==
    /\ InitOutside
    /\ qubits = [i \in 1..NQ |->
                    [enabled |-> TRUE, status |-> "PENDING",
                     function |-> "compute_sum", data |-> Operands,
                     result_size |-> 0]]
    /\ strategy = COLLAPSE_FIRST_WINS
    /\ evaluate = "NULL"
    /\ combine = "NULL"
    /\ custom_collapse = "NULL"
    /\ temporal = NoTemporal
    /\ collapse_output = NullBuf
    /\ result_size = 0
    /\ collapsed = FALSE
    /\ executing = FALSE
    /\ completed_count = 0
    /\ failed_count = 0
    /\ pc = "idle"
    /\ cur = 0
    /\ dispatched = 0
    /\ op = "qubit_init"
    /\ ret = "true"
    /\ called = {}
    /\ gathered = <<>>

\* what the AI observer recommends without learned data
Recommended == {COLLAPSE_FIRST_WINS, COLLAPSE_BEST, COLLAPSE_COMBINE}

NextAdaptive ==
    \/ \E s \in {COLLAPSE_FIRST_WINS, COLLAPSE_TEMPORAL} :
          qarma_quantum_set_collapse(s)
    \/ \E p \in Policies : quantum_adaptive_init(p)
    \/ \E t \in {DEFAULT_THRESHOLDS, AlwaysFiring} : quantum_adaptive_set_thresholds(t)
    \/ \E r \in Recommended : quantum_adaptive_check(r)
    \/ quantum_adaptive_reset
    \/ ExecuteBegin
    \/ DispatchFail
    \/ WrapperStart
    \/ WrapperFinish
    \/ ExecuteSyncReturn

SpecAdaptive == InitAdaptive /\ [][NextAdaptive]_vars

\* ------------------------------------------------------------------------
\* Predictive scheduler (quantum_scheduler.c); times are whole milliseconds
\* ------------------------------------------------------------------------
MaxPatterns == 32

\* estimate_complexity
estimate_complexity(data_size) == data_size * 10

\* the first learned pattern of that data size, 0 when there is none
PatternOf(data_size) ==
    LET pats == g_scheduler.learned_patterns
        hits == {j \in 1..Len(pats) : pats[j].data_size = data_size}
    IN  IF hits = {} THEN 0 ELSE CHOOSE j \in hits : \A k \in hits : j <= k

\* lookup_learned_time: the pattern's average, and 0 for "not found"
lookup_learned_time(data_size) ==
    IF PatternOf(data_size) = 0 THEN 0
    ELSE g_scheduler.learned_patterns[PatternOf(data_size)].avg_time_ms

\* the heuristic of quantum_scheduler_predict: complexity / 100, at least 1
heuristic_time(data_size) ==
    Max2(estimate_complexity(data_size) \div 100, 1)

\* which learned time quantum_scheduler_predict takes for a prediction
use_learned(learned_time) == learned_time > 0

\* the prediction quantum_scheduler_predict makes for the qubit at i whose
\* result size is size; confidence in tenths
predict_size(i, size) ==
    LET learned_time == lookup_learned_time(size)
    IN  [qubit_index |-> i - 1,
         predicted_time_ms |-> IF use_learned(learned_time) THEN learned_time
                               ELSE heuristic_time(size),
         complexity_score |-> estimate_complexity(size),
         confidence |-> IF use_learned(learned_time) THEN 8 ELSE 3]

predict_qubit(i) == predict_size(i, qubits[i].result_size)

\* g_scheduler.predictions[i - 1]: an entry of the array, or what lies
\* behind it
PredictionAt(i) ==
    IF i <= Len(g_scheduler.predictions) THEN g_scheduler.predictions[i]
    ELSE g_scheduler.beyond[i - Len(g_scheduler.predictions)]

SchedulerStep(name, result) ==
    /\ Idle
    /\ op' = name
    /\ ret' = result
    /\ NoCallbacks
    /\ UNCHANGED <<regVars, ctlVars, waitVars, adaptVars, busVars, searchVars,
                   threadVars, parVars, observerVars, ensVars>>

\* quantum_scheduler_init
quantum_scheduler_init ==
    /\ g_scheduler' = [g_scheduler EXCEPT !.strategy = SCHEDULE_AI_PREDICTED,
                                          !.learned_patterns = <<>>,
                                          !.total_scheduled = 0]
    /\ learned' = <<>>
    /\ UNCHANGED <<order_out, pred_reads>>
    /\ SchedulerStep("scheduler_init", "void")

\* quantum_scheduler_set_strategy
quantum_scheduler_set_strategy(s) ==
    /\ g_scheduler' = [g_scheduler EXCEPT !.strategy = s]
    /\ UNCHANGED <<learned, order_out, pred_reads>>
    /\ SchedulerStep("scheduler_set_strategy", "void")

\* quantum_scheduler_predict(reg); allocOk is the outcome of heap_alloc
quantum_scheduler_predict(allocOk) ==
    /\ g_scheduler.total_scheduled < MaxScheduled
    /\ IF allocOk
       THEN g_scheduler' = [g_scheduler EXCEPT
                !.predictions = [i \in 1..Count |-> predict_qubit(i)],
                !.prediction_count = Count,
                !.total_scheduled = @ + Count]
       ELSE g_scheduler' = [g_scheduler EXCEPT !.predictions = <<>>]
    /\ learned' = <<>>
    /\ pred_reads' = {}
    /\ UNCHANGED order_out
    /\ SchedulerStep("scheduler_predict", "void")

\* quantum_scheduler_predict(other) for another register, whose qubits have
\* the result sizes sizes; behind is what the heap holds behind the new
\* predictions array
quantum_scheduler_predict_other(sizes, behind) ==
    /\ g_scheduler.total_scheduled < MaxScheduled
    /\ g_scheduler' = [g_scheduler EXCEPT
            !.predictions = [i \in 1..Len(sizes) |-> predict_size(i, sizes[i])],
            !.prediction_count = Len(sizes),
            !.total_scheduled = @ + Len(sizes),
            !.beyond = behind]
    /\ learned' = <<>>
    /\ pred_reads' = {}
    /\ UNCHANGED order_out
    /\ SchedulerStep("scheduler_predict", "void")

\* one pass of the learning loop over a Completed qubit: update the pattern
\* of its data size, or add one while the table has room
learn_pattern(pats, data_size, actual) ==
    LET hits == {j \in 1..Len(pats) : pats[j].data_size = data_size}
    IN  IF hits # {}
        THEN LET j == CHOOSE j \in hits : \A k \in hits : j <= k
                 old == pats[j]
             IN  [pats EXCEPT ![j] =
                    [old EXCEPT !.avg_time_ms =
                                   (old.avg_time_ms * old.sample_count + actual)
                                      \div (old.sample_count + 1),
                                !.sample_count = old.sample_count + 1]]
        ELSE IF Len(pats) < MaxPatterns
        THEN Append(pats, [data_size |-> data_size, avg_time_ms |-> actual,
                           sample_count |-> 1])
        ELSE pats

RECURSIVE learn_patterns(_, _, _)
learn_patterns(i, pats, actual) ==
    IF i > Count THEN pats
    ELSE IF qubits[i].status # "COMPLETED" THEN learn_patterns(i + 1, pats, actual)
    ELSE learn_patterns(i + 1,
            learn_pattern(pats, qubits[i].result_size, actual[i]), actual)

Dist(a, b) == IF a >= b THEN a - b ELSE b - a

\* error_pct of one qubit in thousandths: |actual - predicted| / actual, and
\* 0 when the actual time is 0
error_pct(predicted, actual) ==
    IF actual > 0 THEN (Dist(actual, predicted) * 1000) \div actual ELSE 0

RECURSIVE total_error(_, _)
total_error(i, actual) ==
    IF i > Count THEN 0
    ELSE (IF qubits[i].status = "COMPLETED"
          THEN error_pct(PredictionAt(i).predicted_time_ms, actual[i])
          ELSE 0) + total_error(i + 1, actual)

\* quantum_scheduler_learn(reg); actual[i] is end_time - start_time of
\* qubit i
quantum_scheduler_learn(actual) ==
    /\ g_scheduler.predictions # <<>>
    /\ g_scheduler.predictions_accurate < MaxScheduled
    /\ \A j \in 1..Len(g_scheduler.learned_patterns) :
          g_scheduler.learned_patterns[j].sample_count < MaxSamples
    /\ LET done == {i \in 1..Count : qubits[i].status = "COMPLETED"}
           accurate == {i \in done :
                          error_pct(PredictionAt(i).predicted_time_ms,
                                    actual[i]) < 200}
       IN  /\ g_scheduler' = [g_scheduler EXCEPT
                !.learned_patterns = learn_patterns(1, @, actual),
                !.avg_prediction_error =
                    (@ * 7 + (total_error(1, actual) \div Count) * 3) \div 10,
                !.predictions_accurate = @ + Cardinality(accurate)]
           /\ learned' = [i \in 1..Count |->
                [done |-> i \in done,
                 data_size |-> qubits[i].result_size,
                 actual |-> actual[i],
                 predicted |-> PredictionAt(i).predicted_time_ms,
                 fresh |-> PatternOf(qubits[i].result_size) = 0,
                 after_predict |-> op = "scheduler_predict"]]
           /\ pred_reads' = {i - 1 : i \in done}
    /\ UNCHANGED order_out
    /\ SchedulerStep("scheduler_learn", "void")

keep_order(order, j, longest) == order

\* the body of the inner loop at j: order[j] and order[j + 1] are swapped
\* when the first is predicted shorter (longest first) or longer (shortest
\* first) than the second; the entries of order are 0-based qubit indices
compare_swap(order, j, longest) ==
    LET idx1 == order[j + 1]
        idx2 == order[j + 2]
        t1 == PredictionAt(idx1 + 1).predicted_time_ms
        t2 == PredictionAt(idx2 + 1).predicted_time_ms
    IN  IF (longest /\ t1 < t2) \/ (~longest /\ t1 > t2)
        THEN [order EXCEPT ![j + 1] = idx2, ![j + 2] = idx1]
        ELSE order

\* the inner loop from j while j < limit
RECURSIVE bubble_pass(_, _, _, _)
bubble_pass(order, j, limit, longest) ==
    IF j >= limit THEN order
    ELSE bubble_pass(compare_swap(order, j, longest), j + 1, limit, longest)

\* the outer loop from i while i < reg->count - 1
RECURSIVE bubble_sort(_, _, _)
bubble_sort(order, i, longest) ==
    IF i >= Count - 1 THEN order
    ELSE bubble_sort(bubble_pass(order, 0, Count - i - 1, longest), i + 1, longest)

\* the order array when quantum_scheduler_get_order returns it
sorted_order ==
    LET indices == [i \in 1..Count |-> i - 1]
    IN  IF g_scheduler.strategy \in {SCHEDULE_LONGEST_FIRST, SCHEDULE_AI_PREDICTED}
        THEN bubble_sort(indices, 0, TRUE)
        ELSE IF g_scheduler.strategy = SCHEDULE_SHORTEST_FIRST
        THEN bubble_sort(indices, 0, FALSE)
        ELSE indices

\* the entries of predictions[] the sort compares: those of every qubit
\* index, when a sorting strategy has at least one pair to compare
sort_reads ==
    IF /\ g_scheduler.strategy \in {SCHEDULE_LONGEST_FIRST, SCHEDULE_AI_PREDICTED,
                                    SCHEDULE_SHORTEST_FIRST}
       /\ Count >= 2
    THEN 0..(Count - 1)
    ELSE {}

\* quantum_scheduler_get_order(reg, &order_size); allocOk is the outcome of
\* heap_alloc
quantum_scheduler_get_order(allocOk) ==
    /\ pred_reads' = IF g_scheduler.predictions = <<>> \/ ~allocOk THEN {}
                     ELSE sort_reads
    /\ order_out' =
          IF g_scheduler.predictions = <<>> THEN NoOrder
          ELSE IF ~allocOk THEN [null |-> TRUE, order |-> <<>>, order_size |-> Count]
          ELSE [null |-> FALSE, order |-> sorted_order, order_size |-> Count]
    /\ UNCHANGED <<g_scheduler, learned>>
    /\ SchedulerStep("scheduler_get_order",
                     IF g_scheduler.predictions = <<>> \/ ~allocOk THEN "NULL" ELSE "order")

\* quantum_scheduler_get_prediction(reg, index)
quantum_scheduler_get_prediction(index) ==
    LET found == g_scheduler.predictions # <<>> /\ index < g_scheduler.prediction_count
    IN  /\ pred_reads' = IF found THEN {index} ELSE {}
        /\ UNCHANGED <<g_scheduler, learned, order_out>>
        /\ SchedulerStep("scheduler_get_prediction",
                         IF found THEN "prediction" ELSE "NULL")

\* ------------------------------------------------------------------------
\* Two threads calling the bus concurrently; thread 1 is the one that also
\* receives
\* ------------------------------------------------------------------------
ReceiverThread == CHOOSE t \in BusThreads : \A u \in BusThreads : u <= t

NextThreads ==
    \/ \E t \in BusThreads : ThreadSend(t, MSG_PARTIAL_RESULT, 7)
    \/ \E t \in BusThreads : EnqueueCheck(t)
    \/ \E t \in BusThreads : EnqueueCopy(t)
    \/ \E t \in BusThreads : EnqueueTailLoad(t)
    \/ \E t \in BusThreads : EnqueueTailStore(t)
    \/ \E t \in BusThreads : EnqueueCountLoad(t)
    \/ \E t \in BusThreads : EnqueueCountStore(t)
    \/ ThreadReceive(ReceiverThread)
    \/ \E t \in BusThreads : DequeueShift(t)
    \/ \E t \in BusThreads : DequeueCountLoad(t)
    \/ \E t \in BusThreads : DequeueCountStore(t)
    \/ \E t \in BusThreads, quality \in {50, FoundQuality} :
          ThreadBroadcast(t, 9, quality)
    \/ \E t \in BusThreads : BestId(t)
    \/ \E t \in BusThreads : BestQuality(t)
    \/ \E t \in BusThreads : BestSend(t)

SpecThreads == Init /\ [][NextThreads]_vars

\* ------------------------------------------------------------------------
\* One more qubit than NQ, each execution dispatched as parallel tasks; the
\* caller configures and starts an execution only when the tasks of the
\* previous one are over
\* ------------------------------------------------------------------------
InitParallel == InitRegister(NQ + 1)

NextParallel ==
    \/ \E i \in 1..Count :
          /\ AllWorkersDone
          /\ qarma_qubit_init(i, "compute_sum", Operands, 0, TRUE)
    \/ \E i \in 1..Count, b \in BOOLEAN :
          /\ AllWorkersDone
          /\ qubits[i].function # "NULL"
          /\ qarma_qubit_set_enabled(i, b)
    \/ AllWorkersDone /\ ExecuteBegin
    \/ DispatchSkip
    \/ ParallelDispatchFail
    \/ ParallelSubmit
    \/ ExecuteReturn
    \/ \E i \in 1..Count : WorkerStart(i)
    \/ \E i \in 1..Count : WorkerFinish(i)
    \/ \E i \in 1..Count : WorkerCount(i)

SpecParallel == InitParallel /\ [][NextParallel]_vars

\* ------------------------------------------------------------------------
\* Collapse after tasks that finish in any order: NQ + 1 initialised qubits
\* dispatched as parallel tasks, First-wins or Last-wins, the collapse called
\* at any time after the dispatch, qubits disabled between executions
\* ------------------------------------------------------------------------
InitFinish ==
    /\ InitOutside
    /\ qubits = [i \in 1..(NQ + 1) |->
                  [enabled |-> TRUE, status |-> "PENDING", function |-> "compute_sum",
                   data |-> Operands, result_size |-> 0]]
    /\ strategy = COLLAPSE_FIRST_WINS
    /\ evaluate = "NULL"
    /\ combine = "NULL"
    /\ custom_collapse = "NULL"
    /\ temporal = NoTemporal
    /\ collapse_output = NullBuf
    /\ result_size = StructWords
    /\ collapsed = FALSE
    /\ executing = FALSE
    /\ completed_count = 0
    /\ failed_count = 0
    /\ pc = "idle"
    /\ cur = 0
    /\ dispatched = 0
    /\ op = "init_qubit"
    /\ ret = "true"
    /\ called = {}
    /\ gathered = <<>>

NextFinish ==
    \/ \E s \in {COLLAPSE_FIRST_WINS, COLLAPSE_LAST_WINS} :
          /\ AllWorkersDone
          /\ qarma_quantum_set_collapse(s)
    \/ \E i \in 1..Count :
          /\ AllWorkersDone
          /\ qubits[i].enabled
          /\ qarma_qubit_set_enabled(i, FALSE)
    \/ AllWorkersDone /\ ExecuteBegin
    \/ DispatchSkip
    \/ ParallelSubmit
    \/ ExecuteReturn
    \/ \E i \in 1..Count : WorkerStart(i)
    \/ \E i \in 1..Count : WorkerFinish(i)
    \/ \E i \in 1..Count : WorkerCount(i)
    \/ qarma_quantum_collapse
    \/ CollapseCached
    \/ AllWorkersDone /\ qarma_quantum_register_reset

SpecFinish == InitFinish /\ [][NextFinish]_vars

\* ------------------------------------------------------------------------
\* Speculative and Best over every list of QualityQubits results whose
\* scores are taken from QualityScores (example_advanced_collapse_strategies
\* at a smaller scale): the register has been executed, its evaluate
\* callback reads the score from the result
\* ------------------------------------------------------------------------
QualityQubits == 4

QualityScores == {3, 5, 10, 20}

InitQuality ==
    /\ InitOutside
    /\ \E quality \in [1..QualityQubits -> QualityScores] :
          qubits = [i \in 1..QualityQubits |->
                      [enabled |-> TRUE, status |-> "COMPLETED",
                       function |-> "compute_sum",
                       data |-> <<0, quality[i], quality[i]>>,
                       result_size |-> 0]]
    /\ strategy = COLLAPSE_SPECULATIVE
    /\ evaluate = "evaluate"
    /\ combine = "NULL"
    /\ custom_collapse = "NULL"
    /\ temporal = NoTemporal
    /\ collapse_output = NullBuf
    /\ result_size = StructWords
    /\ collapsed = FALSE
    /\ executing = FALSE
    /\ completed_count = QualityQubits
    /\ failed_count = 0
    /\ pc = "idle"
    /\ cur = 0
    /\ dispatched = 0
    /\ op = "execute_sync"
    /\ ret = "true"
    /\ called = {}
    /\ gathered = <<>>

NextQuality ==
    \/ \E s \in {COLLAPSE_BEST, COLLAPSE_SPECULATIVE} : qarma_quantum_set_collapse(s)
    \/ qarma_quantum_collapse
    \/ CollapseCached

SpecQuality == InitQuality /\ [][NextQuality]_vars

\* ------------------------------------------------------------------------
\* Ensemble over every list of NQ + 1 results scoring 0 or 1: the register
\* has been executed, has an evaluate callback and a temporal history that
\* is empty or holds an earlier round's scores; ensembles of one or two of
\* the strategies that select a result are configured and collapsed
\* ------------------------------------------------------------------------
SubStrategies == {COLLAPSE_FIRST_WINS, COLLAPSE_LAST_WINS, COLLAPSE_BEST,
                  COLLAPSE_FUZZY, COLLAPSE_TEMPORAL}

Histories ==
    {[NoTemporal EXCEPT !.alloc = TRUE, !.window_size = NQ + 1, !.trend_weight = 50,
                        !.history_size = n, !.quality_history = h] :
        n \in {0, NQ + 1}, h \in {Zeroes(NQ + 1), [k \in 1..(NQ + 1) |-> 1]}}

InitEnsemble ==
    /\ InitOutside
    /\ \E quality \in [1..(NQ + 1) -> {0, 1}] :
          qubits = [i \in 1..(NQ + 1) |->
                      [enabled |-> TRUE, status |-> "COMPLETED",
                       function |-> "compute_sum",
                       data |-> <<0, quality[i], quality[i]>>,
                       result_size |-> 0]]
    /\ strategy = COLLAPSE_ENSEMBLE
    /\ evaluate = "evaluate"
    /\ combine = "NULL"
    /\ custom_collapse = "NULL"
    /\ temporal \in Histories
    /\ collapse_output = NullBuf
    /\ result_size = StructWords
    /\ collapsed = FALSE
    /\ executing = FALSE
    /\ completed_count = NQ + 1
    /\ failed_count = 0
    /\ pc = "idle"
    /\ cur = 0
    /\ dispatched = 0
    /\ op = "execute_sync"
    /\ ret = "true"
    /\ called = {}
    /\ gathered = <<>>

NextEnsemble ==
    \/ \E s1 \in SubStrategies, w1 \in {1, 2},
          s2 \in SubStrategies \cup {COLLAPSE_STRATEGY_COUNT}, ok \in BOOLEAN :
          /\ ~collapsed
          /\ qarma_quantum_set_ensemble(s1, w1, s2, 1, COLLAPSE_BEST, 0, ok)
    \/ qarma_quantum_collapse
    \/ CollapseNoVotes
    \/ CollapseCached

SpecEnsemble == InitEnsemble /\ [][NextEnsemble]_vars

\* ------------------------------------------------------------------------
\* Temporal collapses with a history window set and changed by the caller:
\* the qubits compute 30 or 31, may be disabled, and are collapsed round
\* after round
\* ------------------------------------------------------------------------
Windows == {1, NQ}

InitTemporal ==
    /\ InitOutside
    /\ qubits = qarma_quantum_register_create(NQ)
    /\ strategy = COLLAPSE_TEMPORAL
    /\ evaluate = "evaluate"
    /\ combine = "NULL"
    /\ custom_collapse = "NULL"
    /\ temporal = NoTemporal
    /\ collapse_output = NullBuf
    /\ result_size = StructWords
    /\ collapsed = FALSE
    /\ executing = FALSE
    /\ completed_count = 0
    /\ failed_count = 0
    /\ pc = "idle"
    /\ cur = 0
    /\ dispatched = 0
    /\ op = "set_evaluate"
    /\ ret = "void"
    /\ called = {}
    /\ gathered = <<>>

NextTemporal ==
    \/ \E i \in 1..Count, d \in {Operands, Corrupted} :
          qarma_qubit_init(i, "compute_sum", d, 0, TRUE)
    \/ \E i \in 1..Count :
          /\ qubits[i].enabled
          /\ qarma_qubit_set_enabled(i, FALSE)
    \/ \E window \in Windows : qarma_quantum_set_temporal(window, 50)
    \/ ExecuteBegin
    \/ DispatchSkip
    \/ WrapperStart
    \/ WrapperFinish
    \/ ExecuteSyncReturn
    \/ qarma_quantum_collapse
    \/ CollapseCached
    \/ qarma_quantum_register_reset

SpecTemporal == InitTemporal /\ [][NextTemporal]_vars

\* ------------------------------------------------------------------------
\* The observer fed with executions of three registers: two First-wins
\* registers of 2 and 3 qubits, which are similar, and a Best register of
\* 6 qubits with an evaluate callback
\* ------------------------------------------------------------------------
RegisterProfile(n, has_evaluation) ==
    [qubit_count |-> n, avg_execution_time |-> 0, variance |-> 0,
     has_evaluation |-> has_evaluation, requires_all |-> FALSE, data_size |-> 0]

Observations ==
    {<<RegisterProfile(NQ, FALSE), COLLAPSE_FIRST_WINS>>,
     <<RegisterProfile(NQ + 1, FALSE), COLLAPSE_FIRST_WINS>>,
     <<RegisterProfile(SearchQubits, TRUE), COLLAPSE_BEST>>}

\* the profiles a recommendation is asked for: the three registers, and
\* NQ-qubit workloads that need all results or whose times vary
Workloads ==
    {o[1] : o \in Observations}
       \cup {[RegisterProfile(NQ, FALSE) EXCEPT !.requires_all = TRUE],
             [RegisterProfile(NQ, FALSE) EXCEPT !.variance = LOW_VARIANCE]}

NextObserver ==
    \/ \E o \in Observations, ok \in BOOLEAN :
          quantum_ai_observe_complete(o[1], o[2], TRUE, 0, 1000, ok)
    \/ quantum_ai_reset_learning
    \/ \E b \in BOOLEAN : quantum_ai_set_enabled(b)

SpecObserver == Init /\ [][NextObserver]_vars

\* ------------------------------------------------------------------------
\* Recommendations asked between the observations of two registers, one
\* executed with First-wins and one with Best, succeeding or not
\* ------------------------------------------------------------------------
MaxAdvised == 6

NextRecommend ==
    \/ /\ g_observer.total_observations < MaxAdvised
       /\ \E ok \in BOOLEAN :
            quantum_ai_observe_complete(RegisterProfile(NQ, FALSE),
                                        COLLAPSE_FIRST_WINS, ok, 0, 1000, TRUE)
    \/ /\ g_observer.total_observations < MaxAdvised
       /\ \E ok \in BOOLEAN :
            quantum_ai_observe_complete(RegisterProfile(SearchQubits, TRUE),
                                        COLLAPSE_BEST, ok, 1, 500, TRUE)
    \/ quantum_ai_reset_learning
    \/ \E b \in BOOLEAN : quantum_ai_set_enabled(b)
    \/ \E p \in Workloads : quantum_ai_recommend_strategy(p)

SpecRecommend == Init /\ [][NextRecommend]_vars

\* ------------------------------------------------------------------------
\* The scheduler around one executed register whose qubits have result
\* buffers of one or two sizes: the register is predicted and learned from
\* in any order, qubits may be disabled in between, and the scheduler is
\* initialised before it has learned anything.
\* The wrapper stamps no times, so end_time - start_time is 0 in this
\* build; the other values of ActualTimes stand for a wrapper that does.
\* ------------------------------------------------------------------------
SchedSizes == {SizeStep, 2 * SizeStep}
ActualTimes == {0, 3}

\* the register after qarma_qubit_init of every qubit and one execution
InitScheduler ==
    /\ InitOutside
    /\ \E size \in [1..NQ -> SchedSizes] :
          qubits = [i \in 1..NQ |->
                      [enabled |-> TRUE, status |-> "COMPLETED",
                       function |-> "compute_sum",
                       data |-> QubitFn("compute_sum", Operands),
                       result_size |-> size[i]]]
    /\ strategy = COLLAPSE_FIRST_WINS
    /\ evaluate = "NULL"
    /\ combine = "NULL"
    /\ custom_collapse = "NULL"
    /\ temporal = NoTemporal
    /\ collapse_output = NullBuf
    /\ result_size = 0
    /\ collapsed = FALSE
    /\ executing = FALSE
    /\ completed_count = NQ
    /\ failed_count = 0
    /\ pc = "idle"
    /\ cur = 0
    /\ dispatched = 0
    /\ op = "execute_sync"
    /\ ret = "true"
    /\ called = {}
    /\ gathered = <<>>

NextScheduler ==
    \/ \E i \in 1..Count :
          /\ qubits[i].enabled
          /\ qarma_qubit_set_enabled(i, FALSE)
    \/ g_scheduler.learned_patterns = <<>> /\ quantum_scheduler_init
    \/ \E s \in {SCHEDULE_SHORTEST_FIRST, SCHEDULE_AI_PREDICTED} :
          quantum_scheduler_set_strategy(s)
    \/ \E ok \in BOOLEAN : quantum_scheduler_predict(ok)
    \/ \E actual \in [1..Count -> ActualTimes] : quantum_scheduler_learn(actual)

SpecScheduler == InitScheduler /\ [][NextScheduler]_vars

\* ------------------------------------------------------------------------
\* Execution orders: an executed register of OrderQubits qubits whose result
\* sizes give up to three predicted times, every scheduling strategy,
\* predictions made or failing, orders asked for at any time
\* ------------------------------------------------------------------------
OrderQubits == 4

OrderSizes == {SizeStep, 2 * SizeStep, 3 * SizeStep}

InitOrder ==
    /\ InitOutside
    /\ \E size \in [1..OrderQubits -> OrderSizes] :
          qubits = [i \in 1..OrderQubits |->
                      [enabled |-> TRUE, status |-> "COMPLETED",
                       function |-> "compute_sum",
                       data |-> QubitFn("compute_sum", Operands),
                       result_size |-> size[i]]]
    /\ strategy = COLLAPSE_FIRST_WINS
    /\ evaluate = "NULL"
    /\ combine = "NULL"
    /\ custom_collapse = "NULL"
    /\ temporal = NoTemporal
    /\ collapse_output = NullBuf
    /\ result_size = 0
    /\ collapsed = FALSE
    /\ executing = FALSE
    /\ completed_count = OrderQubits
    /\ failed_count = 0
    /\ pc = "idle"
    /\ cur = 0
    /\ dispatched = 0
    /\ op = "execute_sync"
    /\ ret = "true"
    /\ called = {}
    /\ gathered = <<>>

NextOrder ==
    \/ \E s \in SCHEDULE_SEQUENTIAL..SCHEDULE_AI_PREDICTED :
          quantum_scheduler_set_strategy(s)
    \/ \E ok \in BOOLEAN : quantum_scheduler_predict(ok)
    \/ \E ok \in BOOLEAN : quantum_scheduler_get_order(ok)

SpecOrder == InitOrder /\ [][NextOrder]_vars

\* ------------------------------------------------------------------------
\* Qubit set-up with result buffers: any index, function and result size,
\* heap_alloc succeeding or failing, between executions
\* ------------------------------------------------------------------------
NextInit ==
    \/ \E i \in 1..(Count + 1), f \in Functions, n \in ResultSizes, ok \in BOOLEAN :
          qarma_qubit_init(i, f, Operands, n, ok)
    \/ \E i \in 1..Count, e \in BOOLEAN : qarma_qubit_set_enabled(i, e)
    \/ ExecuteBegin
    \/ DispatchSkip
    \/ WrapperStart
    \/ WrapperFinish
    \/ ExecuteReturn
    \/ qarma_quantum_register_reset

SpecInit == Init /\ [][NextInit]_vars

\* ------------------------------------------------------------------------
\* Properties
\* ------------------------------------------------------------------------
Range(sq) == {sq[k] : k \in 1..Len(sq)}

CompletedQubits == {i \in 1..Count : qubits[i].status = "COMPLETED"}

\* C1 - Idempotent collapse: a collapse() call on a register whose collapsed
\* flag is set returns the cached buffer, leaves its contents, the temporal
\* history and the qubits as they are, gathers nothing and invokes no
\* callback; and while the flag stays set no call changes the buffer.
C1_IdempotentCollapse ==
    [][/\ (collapsed /\ op' = "collapse") =>
             /\ ret' = collapse_output.owner
             /\ collapse_output' = collapse_output
             /\ temporal' = temporal
             /\ qubits' = qubits
             /\ collapsed'
             /\ called' = {}
             /\ gathered' = <<>>
       /\ (collapsed /\ collapsed') => collapse_output' = collapse_output]_vars

\* a second collapse() after a Temporal collapse that gathered two results
\* and recorded them in the history
C1_Witness ==
    /\ op = "collapse"
    /\ collapsed
    /\ ret = "heap"
    /\ gathered = <<>>
    /\ called = {}
    /\ strategy = COLLAPSE_TEMPORAL
    /\ temporal.history_size = NQ
    /\ CompletedQubits = 1..NQ

RECURSIVE RangeSums(_)
RangeSums(S) ==
    IF S = {} THEN 0
    ELSE LET i == CHOOSE x \in S : TRUE
         IN  SumFromTo((i - 1) * RangeCount, i * RangeCount) + RangeSums(S \ {i})

Mismatch ==
    \E k \in 1..Len(gathered) :
        ~MemEq(qubits[gathered[k]].data, qubits[gathered[1]].data, result_size)

\* C3 - Validate must not silently succeed: a Validate collapse whose
\* gathered results do not all equal the first one does not return a
\* non-null buffer with the register marked collapsed.
C3_ValidateMismatchNotSuccess ==
    (/\ op = "collapse"
     /\ strategy = COLLAPSE_VALIDATE
     /\ gathered # <<>>
     /\ Mismatch)
        => ~(ret # "null" /\ collapsed)

\* C4 - Disabled qubits are excluded: the dispatch of a disabled qubit does
\* not run it and changes neither counter nor its data and marks it
\* Skipped; when execute() returns every disabled qubit is Skipped; a qubit
\* becomes Completed only by running while enabled; and collapse() gathers
\* Completed qubits only, so never a qubit disabled at the last dispatch.
C4_DisabledExcluded ==
    [][\A i \in 1..Count :
          /\ (pc = "dispatch" /\ cur = i /\ ~qubits[i].enabled) =>
                /\ qubits'[i].status = "SKIPPED"
                /\ qubits'[i].data = qubits[i].data
                /\ completed_count' = completed_count
                /\ failed_count' = failed_count
                /\ pc' # "running"
          /\ (pc = "dispatch" /\ pc' = "idle" /\ ~qubits[i].enabled) =>
                qubits'[i].status = "SKIPPED"
          /\ (qubits[i].status # "COMPLETED" /\ qubits'[i].status = "COMPLETED") =>
                (pc = "running" /\ cur = i /\ qubits[i].enabled)
          /\ (op' = "collapse" /\ i \in Range(gathered')) =>
                (qubits[i].status = "COMPLETED" /\ qubits[i].enabled)]_vars

\* a collapse() that gathered a Completed qubit and left out a disabled,
\* Skipped one that holds data
C4_Witness ==
    /\ op = "collapse"
    /\ gathered # <<>>
    /\ \E i \in 1..Count :
          /\ ~qubits[i].enabled
          /\ qubits[i].status = "SKIPPED"
          /\ qubits[i].data # NullPtr
          /\ i \notin Range(gathered)

\* C5 - Qubit status never regresses: without reset() a Completed, Failed
\* or Skipped qubit keeps its status, and a Pending or Running qubit moves
\* only Pending->Running, Running->Completed, Running->Failed,
\* Pending->Skipped.
C5_StatusNeverRegresses ==
    [][op' # "reset" =>
          \A i \in 1..Count :
              \/ qubits'[i].status = qubits[i].status
              \/ <<qubits[i].status, qubits'[i].status>> \in
                    {<<"PENDING", "RUNNING">>, <<"RUNNING", "COMPLETED">>,
                     <<"RUNNING", "FAILED">>, <<"PENDING", "SKIPPED">>}]_vars

\* C6 - wait() honours its timeout: a wait(reg, timeout_ms) with
\* timeout_ms > 0 is never still polling after more than timeout_ms.
C6_WaitHonoursTimeout ==
    (pc = "wait" /\ wait_timeout > 0) => waited <= wait_timeout

\* the trigger of the controller's policy holds at every check, and no
\* check is skipped for the interval
FiresAtEveryCheck ==
    /\ adaptive_state.alloc
    /\ adaptive_state.policy = ADAPTIVE_POLICY_QUALITY
    /\ adaptive_state.thresholds = AlwaysFiring

\* C7 - Adaptive single-switch: when execute_sync() returns true on a
\* register whose adaptive policy fires at every check, switch_count is 1
\* and has_switched is true.
C7_SingleSwitchAfterExecution ==
    (op = "execute_sync" /\ ret = "true" /\ FiresAtEveryCheck) =>
        (adaptive_state.switch_count = 1 /\ adaptive_state.has_switched)

\* C8 - Adaptive switches at most once: since the last quantum_adaptive_init
\* or quantum_adaptive_reset, switch_count <= 1, has_switched holds exactly
\* when switch_count = 1, at most one check returned true and at most one
\* check changed the register's strategy.
C8_SwitchAtMostOnce ==
    /\ adaptive_state.switch_count <= 1
    /\ adaptive_state.has_switched <=> adaptive_state.switch_count = 1
    /\ adaptive_log.returned_true <= 1
    /\ adaptive_log.returned_true = adaptive_state.switch_count
    /\ adaptive_log.changed <= 1

\* a check during execution whose trigger fires and that returns false
\* because the controller has switched already
C8_Witness ==
    /\ op = "adaptive_check"
    /\ ret = "false"
    /\ executing
    /\ FiresAtEveryCheck
    /\ adaptive_state.has_switched
    /\ adaptive_state.switch_count = 1

AllReturned == \A q \in 1..SearchQubits : tasks.run[q].state = "returned"

C10_DeliveredExactlyOnce ==
    /\ \A m \in accepted :
          m \in Range(returned) \/ m \in Range(Queued)
    /\ \A j, k \in 1..Len(returned) : j # k => returned[j] # returned[k]
    /\ Range(returned) \subseteq accepted

\* accepted messages in the order send() accepted them (payload addresses
\* are handed out in increasing order)
RECURSIVE OldestFirst(_)
OldestFirst(S) ==
    IF S = {} THEN <<>>
    ELSE LET m == CHOOSE x \in S : \A y \in S : x.data <= y.data
         IN  <<m>> \o OldestFirst(S \ {m})

\* the messages accepted and not yet returned, oldest first
StillQueued == OldestFirst(accepted \ Range(returned))

\* sq without its k-th element
Without(sq, k) == [j \in 1..(Len(sq) - 1) |-> IF j < k THEN sq[j] ELSE sq[j + 1]]

\* C11 - Bus receive order: receive(q) returns the oldest message still
\* queued whose sender is not q, removes exactly that message and keeps
\* the order of the others; it returns FALSE exactly when no queued message
\* has another sender.
C11_ReceiveOrder ==
    [][\A q \in BusQubits :
          cross_learning_receive_message(q) =>
              LET foreign == {k \in 1..Len(StillQueued) :
                                 StillQueued[k].sender_id # q}
                  first == CHOOSE k \in foreign : \A j \in foreign : k <= j
              IN  /\ ret' = "true" <=> foreign # {}
                  /\ foreign # {} =>
                        /\ out_msg' = StillQueued[first]
                        /\ Queued' = Without(StillQueued, first)
                  /\ foreign = {} => Queued' = Queued]_vars

\* no thread is inside a bus call
Quiescent == \A t \in BusThreads : bus_threads[t].pc = "idle"

MaxQuality == CHOOSE x \in {b[2] : b \in broadcasts} :
                  \A b \in broadcasts : b[2] <= x

\* C12 - Bus operations are atomic under concurrency: once the concurrent
\* calls have returned, every accepted message that was not returned is
\* queued in a slot of its own and the count is their number, no message
\* was returned twice, and the best solution is a (sender, quality) pair
\* that was broadcast, of the highest quality broadcast.
C12_BusAtomic ==
    Quiescent =>
        /\ g_queue_count = Cardinality(accepted) - Len(returned)
        /\ \A m \in accepted : m \in Range(returned) \/ m \in Range(Queued)
        /\ \A j, k \in 1..Len(returned) : j # k => returned[j] # returned[k]
        /\ Range(returned) \subseteq accepted
        /\ g_best_solution.has_solution <=> broadcasts # {}
        /\ g_best_solution.has_solution =>
              /\ <<g_best_solution.qubit_id, g_best_solution.quality_score>>
                     \in broadcasts
              /\ g_best_solution.quality_score = MaxQuality

\* every task of the execution is over and execute() has returned
AllFinished == pc = "idle" /\ AllWorkersDone

C14_FullConfidenceAtTen ==
    \A k \in 1..Len(g_observer.learning_db) :
        g_observer.learning_db[k].observation_count = 10 =>
            g_observer.learning_db[k].confidence[1]
               = g_observer.learning_db[k].confidence[2]

\* confidence of entry k of a database, 0 for an entry not yet created
ConfidenceIn(db, k) == IF k <= Len(db) THEN db[k].confidence ELSE <<0, 1>>

LearnedAlone ==
    {i \in DOMAIN learned :
        /\ learned[i].done
        /\ learned[i].after_predict
        /\ \A k \in DOMAIN learned :
              (k # i /\ learned[k].done) => learned[k].data_size # learned[i].data_size}

\* C16: after predict(), an execution and learn() in which a Completed
\* qubit's actual time differs from the time predicted for its data size,
\* the next predict() gives every qubit of that data size a predicted time
\* that is no farther from the actual time than the old prediction, and
\* strictly closer when this was the first sample of that data size; this
\* for every actual time, 0 included.
C16_LearnMovesTowardActual ==
    [][(op' = "scheduler_predict" /\ g_scheduler'.predictions # <<>>) =>
        \A i \in LearnedAlone :
            learned[i].actual # learned[i].predicted =>
                \A j \in 1..Count :
                    qubits[j].result_size = learned[i].data_size =>
                        LET next == g_scheduler'.predictions[j].predicted_time_ms
                            before == Dist(learned[i].predicted, learned[i].actual)
                        IN  /\ Dist(next, learned[i].actual) <= before
                            /\ learned[i].fresh =>
                                  Dist(next, learned[i].actual) < before]_vars

\* the selected strategy needs a callback that is not set
MissingCallback ==
    \/ strategy \in {COLLAPSE_BEST, COLLAPSE_FUZZY, COLLAPSE_SPECULATIVE}
          /\ evaluate = "NULL"
    \/ strategy = COLLAPSE_COMBINE /\ combine = "NULL"
    \/ strategy = COLLAPSE_CUSTOM /\ custom_collapse = "NULL"

\* C17: collapse() on a register that is not collapsed and whose strategy
\* needs a callback that is not set returns no result and leaves the
\* register unchanged: collapsed stays false, no output buffer is allocated.
C17_MissingCallbackFails ==
    [][(MissingCallback /\ ~collapsed /\ op' = "collapse") =>
            (ret' = "null" /\ UNCHANGED regVars)]_vars

\* C18: whenever init_qubit returns false (index out of range, no function,
\* or the result buffer could not be allocated) the register is unchanged:
\* in particular a qubit that was disabled is still disabled, so that a
\* later execute() does not run it.
C18_FailedInitChangesNothing ==
    [][(op' = "qubit_init" /\ ret' = "false") => UNCHANGED regVars]_vars

\* the qubits an execute() would run: the loop of qarma_quantum_execute
\* dispatches the enabled ones
RunSet == {i \in 1..Count : qubits[i].enabled}

\* C19: reset() sets completed_count and failed_count to 0, collapsed to
\* false and every qubit's status to Pending, and leaves every qubit's
\* function, data and enabled flag and the register's strategy and callbacks
\* unchanged, so that execute() after it runs the same set of qubits.
C19_ResetPreservesConfiguration ==
    [][op' = "reset" =>
        /\ completed_count' = 0
        /\ failed_count' = 0
        /\ collapsed' = FALSE
        /\ Len(qubits') = Len(qubits)
        /\ \A i \in 1..Count :
              /\ qubits'[i].status = "PENDING"
              /\ qubits'[i].function = qubits[i].function
              /\ qubits'[i].data = qubits[i].data
              /\ qubits'[i].enabled = qubits[i].enabled
        /\ UNCHANGED <<strategy, evaluate, combine, custom_collapse>>
        /\ RunSet' = RunSet]_vars

\* a reset of a register that has executed: one qubit that ran and holds its
\* sum, one qubit that is disabled, a strategy other than the default
C19_Witness ==
    /\ op = "reset"
    /\ strategy = COLLAPSE_COMBINE
    /\ \E i, j \in 1..Count :
          /\ qubits[i].enabled
          /\ qubits[i].data = QubitFn("compute_sum", Operands)
          /\ qubits[j].function # "NULL"
          /\ ~qubits[j].enabled

\* C20: whenever execute_sync() returns true, every enabled qubit has status
\* Completed and failed_count is 0; a failed dispatch makes it return false.
C20_SyncTrueMeansAllCompleted ==
    (op = "execute_sync" /\ ret = "true") =>
        /\ \A i \in 1..Count : qubits[i].enabled => qubits[i].status = "COMPLETED"
        /\ failed_count = 0

\* C21: the queue never holds more than MaxCrossMessages messages, and a
\* send made while it is full returns FALSE and leaves the queued messages,
\* their order, the count and messages_sent unchanged.
C21_BoundedDropOnOverflow ==
    [][/\ g_queue_count' <= MaxCrossMessages
       /\ (op' = "send" /\ g_queue_count = MaxCrossMessages) =>
             /\ ret' = "false"
             /\ Queued' = Queued
             /\ g_queue_count' = g_queue_count
             /\ g_stats'.messages_sent = g_stats.messages_sent]_vars

\* a send was made on a full queue of messages from both qubits
C21_Witness ==
    /\ op = "send"
    /\ ret = "false"
    /\ g_queue_count = MaxCrossMessages
    /\ {Queued[k].sender_id : k \in 1..g_queue_count} = BusQubits

\* C22: check_convergence() returns true exactly when broadcast_best has
\* been called since init or clear_messages, and then reports the sender of
\* the highest quality_score so far, the earliest among equal scores; a
\* broadcast whose quality is not strictly higher than the recorded best
\* leaves the best-solution slot unchanged.
C22_BestTracking ==
    [][/\ op' = "check_convergence" =>
             /\ ret' = "true" <=> best_made.made
             /\ ret' = "true" => best_qubit_id' = best_made.sender_id
       /\ (op' = "broadcast_best" /\ g_best_solution.has_solution
                /\ best_made' = best_made) =>
             g_best_solution' = g_best_solution]_vars

\* the search qubits whose loop made a pass (one receive) in this step
Passed == {q \in 1..SearchQubits :
              tasks.run[q].state = "loop" /\ tasks'.run[q] # tasks.run[q]}

\* C23: once broadcast_best by a sender has been accepted, every other
\* qubit that calls receive afterwards obtains the BestFound message, the
\* second and later receivers as well as the first.
C23_BroadcastReachesAll ==
    [][\A q \in Passed :
           (g_best_solution.has_solution
               /\ g_best_solution.qubit_id # tasks.run[q].qubit_id) =>
                 /\ ret' = "true"
                 /\ out_msg'.type = MSG_BEST_FOUND
                 /\ out_msg'.sender_id = g_best_solution.qubit_id]_vars

\* some learning entry matches the profile with similarity >= 0.8 and
\* confidence >= 0.5
ConfidentMatch(profile) ==
    \E k \in 1..Len(g_observer.learning_db) :
        /\ AtLeastThreshold(profile_similarity(profile, g_observer.learning_db[k].profile))
        /\ 2 * g_observer.learning_db[k].confidence[1] >=
               g_observer.learning_db[k].confidence[2]

\* C24: whenever no learning entry matches the profile with similarity >=
\* 0.8 and confidence >= 0.5, an empty database and a disabled observer
\* included, recommend_strategy(profile) returns Best if has_evaluation,
\* else Combine if requires_all, else FirstWins if the variance is below
\* 100, else Validate.
C24_RecommendationFallback ==
    (op = "recommend_strategy" /\ ~ConfidentMatch(advice[1].profile)) =>
        advice[1].strategy = heuristic_strategy(advice[1].profile)

\* C24, amended: an enabled observer returns the static heuristics' strategy
\* whenever no learning entry matches the profile with similarity >= 0.8 and
\* confidence >= 0.5; a disabled observer returns FirstWins for every
\* profile.
C24_FallbackOfEnabledObserver ==
    op = "recommend_strategy" =>
        IF ~g_observer.enabled
        THEN advice[1].strategy = COLLAPSE_FIRST_WINS
        ELSE ~ConfidentMatch(advice[1].profile) =>
                 advice[1].strategy = heuristic_strategy(advice[1].profile)

\* an enabled observer with a similar but not yet trusted entry recommends
\* Validate for a workload of high variance
C24_Witness ==
    /\ op = "recommend_strategy"
    /\ g_observer.enabled
    /\ GoodMatch(advice[1].profile)
    /\ ~ConfidentMatch(advice[1].profile)
    /\ advice[1].strategy = COLLAPSE_VALIDATE

\* the predicted time of the qubit at position k of the returned order
OrderTime(k) == g_scheduler.predictions[order_out.order[k] + 1].predicted_time_ms

Finished == {i \in 1..Count : qubits[i].status = "COMPLETED" /\ qubits[i].data # NullPtr}

AllEqual ==
    \A k \in 1..Len(GatherResults), w \in 1..result_size :
        qubits[GatherResults[k]].data[w] = qubits[GatherResults[1]].data[w]

\* the output buffer as a collapse finds it: zeroes when it allocates it
OutputBefore ==
    IF collapse_output.owner = "null" THEN [w \in 1..result_size |-> 0]
    ELSE collapse_output.mem

\* C27: Validate copies results[0] into the output buffer if and only if
\* every Completed result is byte-for-byte equal to results[0]; on a
\* mismatch the output buffer keeps the contents it had before the
\* collapse() call: zeroes on a first collapse, the previous round's value
\* after reset() and a new execution.
C27_ValidateWritesOnlyOnAgreement ==
    [][(/\ op' = "collapse"
        /\ ~collapsed
        /\ collapsed'
        /\ strategy = COLLAPSE_VALIDATE
        /\ result_size > 0
        /\ Len(GatherResults) > 0) =>
          IF AllEqual
          THEN \A w \in 1..result_size :
                  collapse_output'.mem[w] = qubits[GatherResults[1]].data[w]
          ELSE collapse_output'.mem = OutputBefore]_vars

\* a second round whose results are 30 and 31 leaves the 30 that the first
\* round's agreeing results put into the buffer
C27_Witness ==
    /\ op = "collapse"
    /\ collapsed
    /\ strategy = COLLAPSE_VALIDATE
    /\ Len(gathered) = NQ
    /\ \E k \in 1..NQ : qubits[gathered[k]].data[ResultWord] = 31
    /\ \A k \in 1..(NQ - 1) : qubits[gathered[k]].data[ResultWord] = 30
    /\ collapse_output.mem = <<10, 20, 30>>

\* the scores of the results a collapse gathers
GatheredScores == [k \in 1..Len(GatherResults) |-> Eval(qubits[GatherResults[k]].data)]

\* the results other than results[0] that score below 90% of its score
Contradicting ==
    {k \in 2..Len(GatheredScores) : 10 * GatheredScores[k] < 9 * GatheredScores[1]}

\* the results other than results[0] that score at or above that bound
Confirming ==
    {k \in 2..Len(GatheredScores) : 10 * GatheredScores[k] >= 9 * GatheredScores[1]}

\* C28: Speculative adopts results[0] and compares every other result's
\* score with 90% of the score of results[0]; whenever the results below
\* that bound outnumber those at or above it and some result scores
\* strictly higher than results[0], the output is such a better result;
\* otherwise the output is results[0].
C28_SpeculativeRollback ==
    [][(/\ op' = "collapse"
        /\ ~collapsed
        /\ collapsed'
        /\ strategy = COLLAPSE_SPECULATIVE
        /\ Len(GatherResults) >= 2) =>
          IF /\ Cardinality(Contradicting) > Cardinality(Confirming)
             /\ \E k \in 1..Len(GatheredScores) : GatheredScores[k] > GatheredScores[1]
          THEN \E k \in 1..Len(GatheredScores) :
                  /\ GatheredScores[k] > GatheredScores[1]
                  /\ collapse_output'.mem = qubits[GatherResults[k]].data
          ELSE collapse_output'.mem = qubits[GatherResults[1]].data]_vars

\* the result (1-based) a strategy selects when it is the register's
\* strategy, for the strategies that select one
AloneIndex(s, sc) ==
    CASE s = COLLAPSE_FIRST_WINS -> 1
      [] s = COLLAPSE_LAST_WINS -> Len(sc)
      [] s = COLLAPSE_BEST -> ArgMax(sc)
      [] s = COLLAPSE_FUZZY -> FuzzySelect(sc)
      [] s = COLLAPSE_TEMPORAL -> ArgMax(TemporalScores(sc, temporal))

\* the total weight of the sub-strategies that select result i when alone
AloneWeight(i, sc) ==
    LET voters == {k \in 1..Len(ensemble.strategies) :
                     AloneIndex(ensemble.strategies[k], sc) = i}
        RECURSIVE Sum(_)
        Sum(S) == IF S = {} THEN 0
                  ELSE LET k == CHOOSE k \in S : TRUE
                       IN  ensemble.weights[k] + Sum(S \ {k})
    IN  Sum(voters)

\* C29: for every configured sub-strategy the index the Ensemble votes for
\* on its behalf is the index of the result that strategy selects when it
\* is run alone on the same results and register configuration, and the
\* Ensemble output is the result whose index has the largest total weight.
C29_EnsembleReplaysFaithfully ==
    [][(/\ op' = "collapse"
        /\ ~collapsed
        /\ collapsed'
        /\ strategy = COLLAPSE_ENSEMBLE
        /\ ensemble.alloc
        /\ Len(GatherResults) > 0) =>
          /\ \A k \in 1..Len(ensemble.strategies) :
                selected_idx(ensemble.strategies[k], GatheredScores) =
                    AloneIndex(ensemble.strategies[k], GatheredScores)
          /\ \E i \in 1..Len(GatheredScores) :
                /\ \A j \in 1..Len(GatheredScores) :
                      AloneWeight(i, GatheredScores) >= AloneWeight(j, GatheredScores)
                /\ collapse_output'.mem = qubits[GatherResults[i]].data]_vars

\* C30: after every Temporal collapse over count results, history entry i
\* holds this round's score of result i for every i < count, and the
\* history never holds more than window_size entries: history_size <=
\* window_size, and no entry is written at or beyond index window_size.
C30_TemporalHistoryBounded ==
    [][(/\ op' = "collapse"
        /\ ~collapsed
        /\ collapsed'
        /\ strategy = COLLAPSE_TEMPORAL
        /\ temporal.alloc
        /\ called' = {"evaluate"}) =>
          /\ \A k \in 1..Len(GatheredScores) :
                HistoryAt(temporal', k) = GatheredScores[k]
          /\ temporal'.history_size <= temporal'.window_size
          /\ Len(GatheredScores) <= temporal'.window_size
          /\ temporal'.beyond = <<>>]_vars

\* C31: whenever quantum_adaptive_check performs a switch (returns true),
\* the register's strategy after the check differs from the register's
\* strategy immediately before the check, whatever set_collapse,
\* adaptive_init and check calls came before.
C31_SwitchChangesStrategy ==
    [][(op' = "adaptive_check" /\ ret' = "true") => strategy' # strategy]_vars

\* C32: with policy FailureRate, every quantum_adaptive_check call made on
\* an executing register that has not switched yet, at a moment when
\* failed / (completed + failed) exceeds failure_threshold, switches the
\* strategy, also when earlier checks of the same execution found no
\* reason to switch.
C32_FailureRateFiresWheneverItHolds ==
    [][(/\ op' = "adaptive_check"
        /\ adaptive_state.alloc
        /\ executing
        /\ adaptive_state.policy = ADAPTIVE_POLICY_FAILURE_RATE
        /\ ~adaptive_state.has_switched
        /\ completed_count + failed_count > 0
        /\ 100 * failed_count >
              adaptive_state.thresholds.failure_threshold
                  * (completed_count + failed_count)) =>
          (ret' = "true" /\ adaptive_state'.has_switched)]_vars

\* ------------------------------------------------------------------------
\* Predictive scheduling as in example 7: a fresh register of OrderQubits
\* qubits of differing result sizes, predict(), get_order(), then
\* execute_sync()
\* ------------------------------------------------------------------------
InitDispatch ==
    /\ InitOutside
    /\ \E size \in [1..OrderQubits -> OrderSizes] :
          qubits = [i \in 1..OrderQubits |->
                      [enabled |-> TRUE, status |-> "PENDING",
                       function |-> "compute_sum", data |-> Operands,
                       result_size |-> size[i]]]
    /\ strategy = COLLAPSE_FIRST_WINS
    /\ evaluate = "NULL"
    /\ combine = "NULL"
    /\ custom_collapse = "NULL"
    /\ temporal = NoTemporal
    /\ collapse_output = NullBuf
    /\ result_size = 0
    /\ collapsed = FALSE
    /\ executing = FALSE
    /\ completed_count = 0
    /\ failed_count = 0
    /\ pc = "idle"
    /\ cur = 0
    /\ dispatched = 0
    /\ op = "qubit_init"
    /\ ret = "true"
    /\ called = {}
    /\ gathered = <<>>

NextDispatch ==
    \/ \E ok \in BOOLEAN : quantum_scheduler_predict(ok)
    \/ \E ok \in BOOLEAN : quantum_scheduler_get_order(ok)
    \/ ExecuteBegin
    \/ WrapperStart
    \/ WrapperFinish
    \/ ExecuteSyncReturn

SpecDispatch == InitDispatch /\ [][NextDispatch]_vars

\* C33: when predict() and get_order() have been called for a register
\* before execute(), the enabled qubits are run in the order returned by
\* get_order (longest predicted first for the AI-predicted strategy), not
\* in qubit-index order: the qubit started after n others is entry n of the
\* order.
C33_DispatchFollowsOrder ==
    [][(/\ pc = "dispatch"
        /\ pc' = "running"
        /\ ~order_out.null
        /\ order_out.order_size = Count) =>
          \E i \in 1..Count :
              /\ qubits[i].status # "RUNNING"
              /\ qubits'[i].status = "RUNNING"
              /\ order_out.order[dispatched + 1] = i - 1]_vars

\* ------------------------------------------------------------------------
\* Collapse called at any time: a register of initialised qubits under
\* First-wins or Last-wins, executed qubit after qubit, collapse() called by
\* the caller between executions or from inside a running qubit function
\* ------------------------------------------------------------------------
InitEarly ==
    /\ InitOutside
    /\ qubits = [i \in 1..NQ |->
                    [enabled |-> TRUE, status |-> "PENDING",
                     function |-> "compute_sum", data |-> Operands,
                     result_size |-> 0]]
    /\ strategy \in {COLLAPSE_FIRST_WINS, COLLAPSE_LAST_WINS}
    /\ evaluate = "NULL"
    /\ combine = "NULL"
    /\ custom_collapse = "NULL"
    /\ temporal = NoTemporal
    /\ collapse_output = NullBuf
    /\ result_size = StructWords
    /\ collapsed = FALSE
    /\ executing = FALSE
    /\ completed_count = 0
    /\ failed_count = 0
    /\ pc = "idle"
    /\ cur = 0
    /\ dispatched = 0
    /\ op = "set_collapse"
    /\ ret = "void"
    /\ called = {}
    /\ gathered = <<>>

NextEarly ==
    \/ \E i \in 1..Count, e \in BOOLEAN : qarma_qubit_set_enabled(i, e)
    \/ ExecuteBegin
    \/ DispatchSkip
    \/ WrapperStart
    \/ WrapperFinish
    \/ ExecuteReturn
    \/ CollapseCached
    \/ qarma_quantum_collapse

SpecEarly == InitEarly /\ [][NextEarly]_vars

\* C34: a collapse() call made after all enabled qubits of an execution
\* have finished returns the aggregate over all Completed qubits of that
\* execution (under Last-wins the result of the highest-index Completed
\* qubit, under First-wins that of the lowest), also when collapse() had
\* already been called once while the execution was still incomplete.
C34_CollapseAfterCompletionSeesAll ==
    (/\ op = "collapse"
     /\ pc = "idle"
     /\ ~executing
     /\ qarma_quantum_is_complete
     /\ CompletedQubits # {}) =>
        /\ ret = "heap"
        /\ \E i \in CompletedQubits :
              /\ strategy = COLLAPSE_LAST_WINS =>
                    \A j \in CompletedQubits : j <= i
              /\ strategy = COLLAPSE_FIRST_WINS =>
                    \A j \in CompletedQubits : i <= j
              /\ collapse_output.mem[1] = DataAddr(i)

\* C35: for every register reached by any sequence of create, init_qubit
\* and set_enabled calls, when execute() returns completed_count +
\* failed_count equals the number of enabled qubits, so is_complete() is
\* true and wait() returns; this includes a qubit enabled with
\* set_enabled(true) that was never given a function by init_qubit.
C35_ExecuteLeavesRegisterComplete ==
    (op \in {"execute", "execute_sync"} /\ pc = "idle" /\ ~executing) =>
        /\ completed_count + failed_count = EnabledCount
        /\ qarma_quantum_is_complete

\* C36: for any interleaving of concurrently running qubits of one
\* execution, with the enabled set unchanged meanwhile, whenever
\* is_complete() returns true no enabled qubit has status Pending or
\* Running: each qubit writes its final status before it increments the
\* counter. The states looked at are those an execution step has just
\* produced.
C36_CompleteImpliesTerminal ==
    (op \in {"execute_begin", "dispatch", "worker", "execute"}
       /\ qarma_quantum_is_complete) =>
        \A i \in 1..Count :
            qubits[i].enabled => qubits[i].status \notin {"PENDING", "RUNNING"}

\* every qubit is enabled and the tasks have all been counted before
\* execute() has returned, the last qubit of the array having finished first
C36_Witness ==
    /\ op = "worker"
    /\ pc = "dispatch"
    /\ qarma_quantum_is_complete
    /\ EnabledCount = Count
    /\ completed_count = Count
    /\ workers.finished[1] = Count

\* ------------------------------------------------------------------------
\* Progressive and Best over the same results: an executed register of
\* QualityQubits qubits whose results carry their qubit index and any of
\* the quality scores, ties included
\* ------------------------------------------------------------------------
InitProgressive ==
    /\ InitOutside
    /\ \E quality \in [1..QualityQubits -> QualityScores] :
          qubits = [i \in 1..QualityQubits |->
                      [enabled |-> TRUE, status |-> "COMPLETED",
                       function |-> "compute_sum",
                       data |-> <<i, quality[i], quality[i]>>,
                       result_size |-> 0]]
    /\ strategy = COLLAPSE_BEST
    /\ evaluate = "evaluate"
    /\ combine = "NULL"
    /\ custom_collapse = "NULL"
    /\ temporal = NoTemporal
    /\ collapse_output = NullBuf
    /\ result_size = StructWords
    /\ collapsed = FALSE
    /\ executing = FALSE
    /\ completed_count = QualityQubits
    /\ failed_count = 0
    /\ pc = "idle"
    /\ cur = 0
    /\ dispatched = 0
    /\ op = "execute_sync"
    /\ ret = "true"
    /\ called = {}
    /\ gathered = <<>>

NextProgressive ==
    \/ \E s \in {COLLAPSE_BEST, COLLAPSE_PROGRESSIVE} : qarma_quantum_set_collapse(s)
    \/ qarma_quantum_collapse
    \/ CollapseCached

SpecProgressive == InitProgressive /\ [][NextProgressive]_vars

\* the gathered results, dereferenced
GatheredData == [k \in 1..Len(GatherResults) |-> qubits[GatherResults[k]].data]

\* C37: for every non-empty result list and every side-effect-free evaluate
\* function, Progressive outputs the same result as Best, namely the
\* lowest-index result with the maximum score; after the first pass the
\* second and third passes never change the output.
C37_ProgressiveEqualsBest ==
    [][(/\ op' = "collapse"
        /\ ~collapsed
        /\ collapsed'
        /\ strategy = COLLAPSE_PROGRESSIVE
        /\ evaluate # "NULL"
        /\ Len(GatherResults) > 0) =>
          /\ \E i \in 1..Len(GatheredScores) :
                /\ \A j \in 1..Len(GatheredScores) :
                      GatheredScores[j] <= GatheredScores[i]
                /\ \A j \in 1..(i - 1) : GatheredScores[j] < GatheredScores[i]
                /\ collapse_output'.mem = GatheredData[i]
          /\ collapse_output'.mem =
                collapse_best(GatheredData, OutputBefore, result_size)
          /\ LET first == Memcpy(OutputBefore, GatheredData[1], result_size)
             IN  collapse_output'.mem =
                    ProgressivePass(GatheredData, 2,
                                    [mem |-> first, score |-> Eval(first)],
                                    result_size).mem]_vars

\* Progressive has output the second result, which ties for the maximum
\* with a later one and beats the first
C37_Witness ==
    /\ op = "collapse"
    /\ collapsed
    /\ strategy = COLLAPSE_PROGRESSIVE
    /\ called = {"evaluate"}
    /\ Len(gathered) = QualityQubits
    /\ Eval(qubits[1].data) < Eval(qubits[2].data)
    /\ Eval(qubits[2].data) = Eval(qubits[QualityQubits].data)
    /\ \A i \in 1..Count : Eval(qubits[i].data) <= Eval(qubits[2].data)
    /\ collapse_output.mem = qubits[2].data

\* ------------------------------------------------------------------------
\* Speculative over scores of either sign: an executed register of
\* QualityQubits qubits whose results carry their qubit index and a score
\* ------------------------------------------------------------------------
SignedScores == {-100, -95, 0, 5, 20}

InitSpeculative ==
    /\ InitOutside
    /\ \E quality \in [1..QualityQubits -> SignedScores] :
          qubits = [i \in 1..QualityQubits |->
                      [enabled |-> TRUE, status |-> "COMPLETED",
                       function |-> "compute_sum",
                       data |-> <<i, quality[i], quality[i]>>,
                       result_size |-> 0]]
    /\ strategy = COLLAPSE_FIRST_WINS
    /\ evaluate = "evaluate"
    /\ combine = "NULL"
    /\ custom_collapse = "NULL"
    /\ temporal = NoTemporal
    /\ collapse_output = NullBuf
    /\ result_size = StructWords
    /\ collapsed = FALSE
    /\ executing = FALSE
    /\ completed_count = QualityQubits
    /\ failed_count = 0
    /\ pc = "idle"
    /\ cur = 0
    /\ dispatched = 0
    /\ op = "execute_sync"
    /\ ret = "true"
    /\ called = {}
    /\ gathered = <<>>

NextSpeculative ==
    \/ qarma_quantum_set_collapse(COLLAPSE_SPECULATIVE)
    \/ qarma_quantum_collapse
    \/ CollapseCached

SpecSpeculative == InitSpeculative /\ [][NextSpeculative]_vars

RollbackHappens ==
    /\ op = "collapse"
    /\ collapsed
    /\ strategy = COLLAPSE_SPECULATIVE
    /\ Eval(qubits[1].data) < 0
    /\ collapse_output.mem # qubits[1].data

\* ------------------------------------------------------------------------
\* One scheduler, registers of different sizes: predict() is called for this
\* register of NQ qubits or for another register with one qubit fewer or one
\* more; get_order(), learn() and get_prediction() are called for this one
\* ------------------------------------------------------------------------
OtherSizes ==
    [1..(NQ - 1) -> {SizeStep}] \cup [1..(NQ + 1) -> {SizeStep}]

\* what the heap may hold behind a predictions array: entries with any
\* predicted time
Behind ==
    [1..NQ -> {[qubit_index |-> 0, predicted_time_ms |-> t,
                complexity_score |-> 0, confidence |-> 0] : t \in {0, 9}}]

NextSizes ==
    \/ \E ok \in BOOLEAN : quantum_scheduler_predict(ok)
    \/ \E sizes \in OtherSizes, behind \in Behind :
          quantum_scheduler_predict_other(sizes, behind)
    \/ \E ok \in BOOLEAN : quantum_scheduler_get_order(ok)
    \/ quantum_scheduler_learn([i \in 1..Count |-> 3])
    \/ \E index \in 0..NQ : quantum_scheduler_get_prediction(index)

SpecSizes == InitScheduler /\ [][NextSizes]_vars

\* C39: for any sequence of predict, get_order and learn calls on registers
\* of different sizes, get_order(reg) and learn(reg) only read prediction
\* entries at indices below prediction_count, so predictions made for a
\* smaller register are never read for the qubits of a larger one.
C39_PredictionsReadInRange ==
    \A i \in pred_reads : i < g_scheduler.prediction_count

\* C40: whenever recommend_strategy takes the learned path (a matching
\* entry with similarity >= 0.8 and confidence >= 0.5), the strategy it
\* returns has total_uses > 0 in that entry, also when every observed
\* strategy has success_count 0 because observe_complete was called before
\* collapse().
C40_LearnedRecommendationWasObserved ==
    (/\ op = "recommend_strategy"
     /\ g_observer.enabled
     /\ GoodMatch(advice[1].profile)
     /\ 2 * g_observer.learning_db[BestMatch(advice[1].profile)].confidence[1] >=
            g_observer.learning_db[BestMatch(advice[1].profile)].confidence[2]) =>
        g_observer.learning_db[BestMatch(advice[1].profile)]
            .metrics[advice[1].strategy].total_uses > 0

====
